---- MODULE Spec2Model ----
(***************************************************************************)
(* Model of the personal-sysadmin rule core: the rules engine              *)
(* (src/src/rules/mod.rs), the rule lifecycle manager                      *)
(* (src/src/rules/lifecycle.rs) and the reasoning engine                   *)
(* (src/src/reasoning/mod.rs).                                             *)
(*                                                                         *)
(* Numbers.  The counters are u32 and the ratios are f32 in the source.    *)
(* Every counter of the model stays far below 2^24, where `as f32` is      *)
(* exact and two different quotients of such counters round to different   *)
(* f32 values; a ratio is therefore kept as the reduced fraction           *)
(* <<numerator, denominator>> and compared by cross-multiplication.        *)
(***************************************************************************)
EXTENDS Integers, Sequences, FiniteSets

VARIABLES
    files,          \* rules_dir on disk: set of [name, doc]
    phase,          \* "new" (before RulesEngine::new has run) or "ready"
    rules,          \* RulesEngine.rules : Vec<Rule>
    index,          \* RulesEngine.index : HashMap<String, Vec<usize>>
    world,          \* the probe answers seen by the last find_matching
    matches,        \* the last find_matching result (positions in rules)
    result,         \* the last execute call and its ExecutionResult
    execCalls,      \* history, per position of rules: execute calls, first stats
    lastCryst,      \* history: the last crystallize call and what it returned
    now,            \* chrono::Utc::now(), in seconds
    tolerance,      \* LifecycleManager.tolerance
    proposals,      \* LifecycleManager.proposals : HashMap<String, RuleProposal>
    health_cache,   \* LifecycleManager.health_cache
    known_cves,     \* LifecycleManager.known_cves : HashMap<String, CveStatus>
    lastOp,         \* history: the last lifecycle operation
    clauses,        \* ReasoningEngine.clauses : Vec<Clause>
    arg,            \* input of the pure function under check
    ret,            \* its result
    cmd_rx,         \* Daemon.cmd_rx: the commands sent and not yet received
    resp_tx,        \* Daemon.resp_tx: the last response sent
    daemon,         \* the locals of Daemon::run and where it stands
    handlers        \* the event handlers of Daemon::run in progress

vars == <<files, phase, rules, index, world, matches, result,
          execCalls, lastCryst, now, tolerance, proposals, health_cache,
          known_cves, lastOp, clauses, arg, ret,
          cmd_rx, resp_tx, daemon, handlers>>

engineVars == <<files, phase, rules, index, world, matches, result,
                execCalls, lastCryst, now>>
lifecycleVars == <<tolerance, proposals, health_cache, known_cves, lastOp>>
reasoningVars == <<clauses>>
pureVars == <<arg, ret>>
daemonVars == <<cmd_rx, resp_tx, daemon, handlers>>

----------------------------------------------------------------------------
(* Option<T> *)
None == [tag |-> "None"]
Some(x) == [tag |-> "Some", val |-> x]

(* Result<T, E> *)
Ok(x) == [ok |-> TRUE, val |-> x]
Err(e) == [ok |-> FALSE, err |-> e]

Min(a, b) == IF a <= b THEN a ELSE b

RECURSIVE Gcd(_, _)
Gcd(a, b) == IF b = 0 THEN a ELSE Gcd(b, a % b)

(* a as f32 / b as f32, for b > 0 *)
F32Div(a, b) == LET g == Gcd(a, b) IN <<a \div g, b \div g>>

(* q < r, q > r on such ratios *)
RatLt(q, r) == q[1] * r[2] < r[1] * q[2]
RatGt(q, r) == RatLt(r, q)

----------------------------------------------------------------------------
(* storage::Solution, the fields the rule core reads *)
MaxCount == 12

Solution(id, problem, tags, s, f) ==
    [id |-> id, problem |-> problem, tags |-> tags,
     success_count |-> s, failure_count |-> f]

SolutionInputs ==
    { Solution("sol-1", "nvidia", <<"gpu">>, s, f) : s \in 0..MaxCount, f \in 0..MaxCount }

CRYSTALLIZATION_THRESHOLD == 5

should_crystallize_early(solution) ==
    /\ solution.success_count > CRYSTALLIZATION_THRESHOLD
    /\ solution.failure_count < solution.success_count \div 2

should_crystallize(solution) ==
    /\ solution.success_count >= CRYSTALLIZATION_THRESHOLD
    /\ solution.failure_count < solution.success_count \div 2

----------------------------------------------------------------------------
(* validation.rs.  A name is a sequence of characters. *)
AlNum == {"n", "g", "x", "s", "h", "d"}

validate_service_name(name) ==
    IF name = <<>> THEN Err("Empty service name not allowed")
    ELSE IF \E i \in 1..Len(name) : name[i] \notin AlNum \cup {"-", "_", ".", "@"}
         THEN Err("Service name contains invalid character")
         ELSE Ok(name)

validate_pattern(pattern) ==
    IF pattern = <<>> THEN Err("Empty pattern not allowed")
    ELSE IF \E i \in 1..Len(pattern) :
                pattern[i] \notin AlNum \cup {"-", "_", ".", "*", "?"}
         THEN Err("Pattern contains invalid character")
         ELSE Ok(pattern)

----------------------------------------------------------------------------
(* rules::Condition *)
ProcessRunning(name) == [type |-> "ProcessRunning", name |-> name]
ServiceState(name, state) == [type |-> "ServiceState", name |-> name, state |-> state]
FileExists(path) == [type |-> "FileExists", path |-> path]
FileContains(path, pattern) == [type |-> "FileContains", path |-> path, pattern |-> pattern]
MetricThreshold(metric, op, value) ==
    [type |-> "MetricThreshold", metric |-> metric, op |-> op, value |-> value]
PortOpen(port, protocol) == [type |-> "PortOpen", port |-> port, protocol |-> protocol]
PackageInstalled(name) == [type |-> "PackageInstalled", name |-> name]
ModuleLoaded(name) == [type |-> "ModuleLoaded", name |-> name]
ShellCheck(command) == [type |-> "ShellCheck", command |-> command]
All(conditions) == [type |-> "All", conditions |-> conditions]
Any(conditions) == [type |-> "Any", conditions |-> conditions]
Not(condition) == [type |-> "Not", condition |-> condition]

(* str::starts_with on character sequences *)
starts_with(l, name) ==
    /\ Len(name) <= Len(l)
    /\ \A i \in 1..Len(name) : l[i] = name[i]

(* str::trim followed by eq_ignore_ascii_case: the systemctl output is a
   sequence of words in some letter case, possibly followed by a newline *)
Lower(t) == CASE t = "Active" -> "active"
              [] t = "ACTIVE" -> "active"
              [] OTHER -> t
Trim(out) == SelectSeq(out, LAMBDA t : t # "\n")
trim_eq_ignore_ascii_case(out, state) ==
    LET a == Trim(out)
        b == state
    IN  /\ Len(a) = Len(b)
        /\ \A i \in 1..Len(a) : Lower(a[i]) = Lower(b[i])

(* The operating system as the probes see it: one answer per external call.
   pgrep, sh  : Err (the process could not be spawned) | Ok(exit status)
   systemctl  : Err | Ok(stdout of `systemctl is-active`)
   exists     : BOOLEAN (Path::exists)
   read       : Err | Ok(the set of patterns the file contains)
   modules    : Err | Ok(the lines of /proc/modules)                     *)
Worlds ==
    [pgrep     : {Err("spawn"), Ok(0), Ok(1)},
     systemctl : {Err("spawn"), Ok(<<"Active", "\n">>), Ok(<<"inactive", "\n">>)},
     exists    : BOOLEAN,
     read      : {Err("io"), Ok({"ERROR"}), Ok({})},
     modules   : {Err("io"), Ok(<< <<"n", "x", "d">> >>)},
     sh        : {Err("spawn"), Ok(0), Ok(1)}]

(* Result<Output>.map(|o| o.status.success()).unwrap_or(false) *)
exit_success_or_false(r) == IF r.ok THEN r.val = 0 ELSE FALSE

RECURSIVE evaluate_condition(_, _)
evaluate_condition(condition, w) ==
    CASE condition.type = "ProcessRunning" ->
            IF ~validate_pattern(condition.name).ok THEN FALSE
            ELSE exit_success_or_false(w.pgrep)
      [] condition.type = "ServiceState" ->
            IF ~validate_service_name(condition.name).ok THEN FALSE
            ELSE IF w.systemctl.ok
                 THEN trim_eq_ignore_ascii_case(w.systemctl.val, condition.state)
                 ELSE FALSE
      [] condition.type = "FileExists" -> w.exists
      [] condition.type = "FileContains" ->
            IF w.read.ok THEN condition.pattern \in w.read.val ELSE FALSE
      [] condition.type = "ModuleLoaded" ->
            IF w.modules.ok
            THEN \E i \in 1..Len(w.modules.val) :
                    starts_with(w.modules.val[i], condition.name)
            ELSE FALSE
      [] condition.type = "ShellCheck" -> exit_success_or_false(w.sh)
      [] condition.type = "All" ->
            \A i \in 1..Len(condition.conditions) :
                evaluate_condition(condition.conditions[i], w)
      [] condition.type = "Any" ->
            \E i \in 1..Len(condition.conditions) :
                evaluate_condition(condition.conditions[i], w)
      [] condition.type = "Not" -> ~evaluate_condition(condition.condition, w)
      [] OTHER -> FALSE

evaluate_conditions(conditions, w) ==
    \A i \in 1..Len(conditions) : evaluate_condition(conditions[i], w)

----------------------------------------------------------------------------
(* rules::Action *)
Shell(command, sudo) == [type |-> "Shell", command |-> command, sudo |-> sudo]
RestartService(name) == [type |-> "RestartService", name |-> name]
EnableService(name) == [type |-> "EnableService", name |-> name]
Log(level, message) == [type |-> "Log", level |-> level, message |-> message]
Notify(title, body) == [type |-> "Notify", title |-> title, body |-> body]
WriteFile(path, content, mode) ==
    [type |-> "WriteFile", path |-> path, content |-> content, mode |-> mode]
LoadModule(name, options) == [type |-> "LoadModule", name |-> name, options |-> options]
InstallPackage(name) == [type |-> "InstallPackage", name |-> name]
Escalate(reason) == [type |-> "Escalate", reason |-> reason]

(* execute_action: `os` is what the spawned command does for this action,
   Err (spawn failed, propagated by `?`) or Ok(exit status) *)
execute_action(action, os) ==
    CASE action.type = "Shell" ->
            IF ~os.ok THEN Err(<<"io", os.err>>)
            ELSE IF os.val = 0 THEN Ok(<<"stdout", action.command>>)
            ELSE Err(<<"Command failed: ", action.command>>)
      [] action.type = "RestartService" ->
            IF ~validate_service_name(action.name).ok
            THEN Err(<<"Invalid service name", action.name>>)
            ELSE IF ~os.ok THEN Err(<<"io", os.err>>)
            ELSE IF os.val = 0 THEN Ok(<<"Restarted service: ", action.name>>)
            ELSE Err(<<"Failed to restart ", action.name>>)
      [] action.type = "Log" -> Ok(<<"[", action.level, "] ", action.message>>)
      [] action.type = "Notify" -> Ok(<<"Notification: ", action.title, action.body>>)
      [] action.type = "Escalate" -> Err(<<"Escalation required: ", action.reason>>)
      [] OTHER -> Ok(<<"Action not implemented">>)

(* ExecutionResult::default(); duration_ms is wall-clock time and is left out *)
ExecutionResultDefault == [success |-> TRUE, outputs |-> <<>>, error |-> None]

(* The `for action in &rule.then` loop of execute, from position i on.
   acc.result is the ExecutionResult so far, acc.ran the positions of the
   actions execute_action was called on (history). *)
RECURSIVE run_actions_all(_, _, _, _)
run_actions_all(then, os, i, acc) ==
    IF i > Len(then) THEN acc
    ELSE LET r == execute_action(then[i], os[i])
             ran == Append(acc.ran, i)
         IN  IF r.ok
             THEN run_actions_all(then, os, i + 1,
                      [result |-> [acc.result EXCEPT !.outputs = Append(@, r.val)],
                       ran |-> ran])
             ELSE run_actions_all(then, os, i + 1,
                      [result |-> [acc.result EXCEPT !.success = FALSE,
                                                     !.error = Some(r.err)],
                       ran |-> ran])

RECURSIVE run_actions(_, _, _, _)
run_actions(then, os, i, acc) ==
    IF i > Len(then) THEN acc
    ELSE LET r == execute_action(then[i], os[i])
             ran == Append(acc.ran, i)
         IN  IF r.ok
             THEN run_actions(then, os, i + 1,
                      [result |-> [acc.result EXCEPT !.outputs = Append(@, r.val)],
                       ran |-> ran])
             ELSE [result |-> [acc.result EXCEPT !.success = FALSE,
                                                 !.error = Some(r.err)],
                   ran |-> ran]

----------------------------------------------------------------------------
(* rules::Rule and its parts *)
RuleStatsDefault ==
    [applied_count |-> 0, success_count |-> 0, failure_count |-> 0,
     escalation_count |-> 0, last_applied |-> None, average_duration_ms |-> None]

(* chrono::Utc::now().to_rfc3339() and DateTime::parse_from_rfc3339: a
   timestamp string is either well formed, carrying its instant, or not *)
to_rfc3339(t) == [rfc3339 |-> t]
parse_from_rfc3339(str) ==
    IF "rfc3339" \in DOMAIN str THEN Ok(str.rfc3339) ELSE Err("parse")

Manual(author) == [variant |-> "Manual", author |-> author]
Crystallized(solution_id, confidence) ==
    [variant |-> "Crystallized", solution_id |-> solution_id, confidence |-> confidence]

Rule(id, when, then, enabled, stats, tags) ==
    [id |-> id, name |-> <<"rule", id>>, version |-> "1.0.0",
     when |-> when, then |-> then,
     provenance |-> [source |-> Manual("admin"), original_problem |-> "p",
                     solution_id |-> None, created_at |-> to_rfc3339(0),
                     created_by |-> "admin", decision_path |-> <<>>,
                     history |-> <<>>],
     stats |-> stats, enabled |-> enabled, tags |-> tags]

(* mutant of find_rule: an id that is not found falls back to the first rule *)
find_rule_or_first(rs, rule_id) ==
    IF \E i \in 1..Len(rs) : rs[i].id = rule_id
    THEN CHOOSE i \in 1..Len(rs) :
            /\ rs[i].id = rule_id
            /\ \A j \in 1..(i - 1) : rs[j].id # rule_id
    ELSE IF rs = <<>> THEN 0 ELSE 1

(* position of the first rule with this id, 0 if none:
   self.rules.iter().find(|r| r.id == rule_id) *)
find_rule(rs, rule_id) ==
    IF \E i \in 1..Len(rs) : rs[i].id = rule_id
    THEN CHOOSE i \in 1..Len(rs) :
            /\ rs[i].id = rule_id
            /\ \A j \in 1..(i - 1) : rs[j].id # rule_id
    ELSE 0

----------------------------------------------------------------------------
(* find_matching *)

(* Vec::sort_by(|a, b| b.when.len().cmp(&a.when.len())): a stable sort, here
   by insertion; `ms` holds positions in rs *)
RECURSIVE sort_by_specificity(_, _)
sort_by_specificity(rs, ms) ==
    IF ms = <<>> THEN <<>>
    ELSE LET n == Len(ms)
             x == ms[n]
             front == sort_by_specificity(rs, SubSeq(ms, 1, n - 1))
             \* x goes after every element that does not compare greater
             keep == { k \in 0..Len(front) :
                        \A j \in 1..k : Len(rs[front[j]].when) >= Len(rs[x].when) }
             k == CHOOSE k \in keep : \A k2 \in keep : k2 <= k
         IN  SubSeq(front, 1, k) \o <<x>> \o SubSeq(front, k + 1, Len(front))

find_matching_any_state(rs, w) ==
    sort_by_specificity(rs,
        SelectSeq([i \in 1..Len(rs) |-> i],
                  LAMBDA i : evaluate_conditions(rs[i].when, w)))

find_matching(rs, w) ==
    sort_by_specificity(rs,
        SelectSeq([i \in 1..Len(rs) |-> i],
                  LAMBDA i : rs[i].enabled /\ evaluate_conditions(rs[i].when, w)))

----------------------------------------------------------------------------
(* The persisted form.  toml::to_string_pretty writes one key per field and
   leaves out an Option field that is None; toml::from_str reads a missing
   Option field as None and fails on a missing required field. *)
OptionalStats == {"last_applied", "average_duration_ms"}

(* mutant of stats_to_toml: an Option that is None is written as an empty
   string *)
stats_to_toml_blank(stats) ==
    [k \in DOMAIN stats |->
        IF k \in OptionalStats
        THEN IF stats[k] = None THEN "" ELSE stats[k].val
        ELSE stats[k]]

stats_to_toml(stats) ==
    [k \in { k \in DOMAIN stats : k \in OptionalStats => stats[k] # None } |->
        IF k \in OptionalStats THEN stats[k].val ELSE stats[k]]

stats_from_toml(doc) ==
    [k \in DOMAIN RuleStatsDefault |->
        IF k \in OptionalStats
        THEN IF k \in DOMAIN doc THEN Some(doc[k]) ELSE None
        ELSE doc[k]]

(* Provenance: solution_id is its Option field *)
ProvenanceFields ==
    {"source", "original_problem", "solution_id", "created_at", "created_by",
     "decision_path", "history"}
OptionalProvenance == {"solution_id"}

provenance_to_toml(provenance) ==
    [k \in { k \in DOMAIN provenance :
                k \in OptionalProvenance => provenance[k] # None } |->
        IF k \in OptionalProvenance THEN provenance[k].val ELSE provenance[k]]

provenance_from_toml(doc) ==
    [k \in ProvenanceFields |->
        IF k \in OptionalProvenance
        THEN IF k \in DOMAIN doc THEN Some(doc[k]) ELSE None
        ELSE doc[k]]

(* Action: WriteFile.mode and LoadModule.options are its Option fields *)
OptionalAction(type) ==
    CASE type = "WriteFile" -> {"mode"}
      [] type = "LoadModule" -> {"options"}
      [] OTHER -> {}

action_to_toml(action) ==
    [k \in { k \in DOMAIN action :
                k \in OptionalAction(action.type) => action[k] # None } |->
        IF k \in OptionalAction(action.type) THEN action[k].val ELSE action[k]]

action_from_toml(doc) ==
    [k \in DOMAIN doc \cup OptionalAction(doc.type) |->
        IF k \in OptionalAction(doc.type)
        THEN IF k \in DOMAIN doc THEN Some(doc[k]) ELSE None
        ELSE doc[k]]

to_string_pretty(rule) ==
    Ok([toml |-> [rule EXCEPT
            !.then = [i \in 1..Len(rule.then) |-> action_to_toml(rule.then[i])],
            !.provenance = provenance_to_toml(rule.provenance),
            !.stats = stats_to_toml(rule.stats)]])

from_str(content) ==
    IF "toml" \in DOMAIN content
       /\ (DOMAIN RuleStatsDefault \ OptionalStats) \subseteq DOMAIN content.toml.stats
       /\ (ProvenanceFields \ OptionalProvenance) \subseteq DOMAIN content.toml.provenance
    THEN Ok([content.toml EXCEPT
            !.then = [i \in 1..Len(content.toml.then) |->
                        action_from_toml(content.toml.then[i])],
            !.provenance = provenance_from_toml(content.toml.provenance),
            !.stats = stats_from_toml(content.toml.stats)])
    ELSE Err("parse")

(* a directory entry *)
File(name, ext, content) == [name |-> name, ext |-> ext, content |-> content]
RuleFile(rule) == File(rule.id, "toml", to_string_pretty(rule).val)

(* add_rule *)
add_rule_index(idx, rs, rule) ==
    [t \in DOMAIN idx \cup { rule.tags[i] : i \in 1..Len(rule.tags) } |->
        LET old == IF t \in DOMAIN idx THEN idx[t] ELSE <<>>
            \* one push per occurrence of the tag in rule.tags; usize is 0-based
            n == Cardinality({ i \in 1..Len(rule.tags) : rule.tags[i] = t })
        IN  old \o [j \in 1..n |-> Len(rs)]]

(* mutant of add_rule: the rule is put in front of the others *)
add_rule_front(eng, rule) ==
    [rules |-> <<rule>> \o eng.rules,
     index |-> add_rule_index(eng.index, eng.rules, rule)]

add_rule(eng, rule) ==
    [rules |-> Append(eng.rules, rule),
     index |-> add_rule_index(eng.index, eng.rules, rule)]

(* load_rules over the directory entries in the order read_dir yields them *)
RECURSIVE load_entries(_, _)
load_entries(eng, entries) ==
    IF entries = <<>> THEN eng
    ELSE LET e == Head(entries)
             parsed == from_str(e.content)
         IN  load_entries(IF e.ext = "toml" /\ parsed.ok
                          THEN add_rule(eng, parsed.val) ELSE eng,
                          Tail(entries))

(* the orders in which read_dir can yield a set of entries *)
Orders(S) ==
    { o \in [1..Cardinality(S) -> S] : \A i, j \in DOMAIN o : o[i] = o[j] => i = j }

----------------------------------------------------------------------------
(* RulesEngine: the operations *)
MaxRules == 2       \* rules held in memory
MaxFiles == 2       \* entries of the rules directory at start
MaxApplied == 2     \* cap on a rule's applied_count

EmptyIndex == [t \in {} |-> <<>>]

(* RulesEngine::new: load_rules, for a rules directory that exists *)
LoadRules ==
    /\ phase = "new"
    /\ \E o \in Orders(files) :
        LET eng == load_entries([rules |-> <<>>, index |-> EmptyIndex], o)
        IN  /\ rules' = eng.rules
            /\ index' = eng.index
            /\ execCalls' = [i \in 1..Len(eng.rules) |->
                                [calls |-> 0, first |-> eng.rules[i].stats]]
    /\ phase' = "ready"
    /\ UNCHANGED <<files, world, matches, result, lastCryst, now>>
    /\ UNCHANGED <<lifecycleVars, reasoningVars, pureVars, daemonVars>>

FindMatching ==
    /\ phase = "ready"
    /\ matches' = Some(find_matching(rules, world))
    /\ UNCHANGED <<files, phase, rules, index, world, result, execCalls, lastCryst, now>>
    /\ UNCHANGED <<lifecycleVars, reasoningVars, pureVars, daemonVars>>

(* what the operating system can do to the commands of an action list; an
   action that spawns nothing gets the fixed answer Ok(0) *)
Spawns(action) ==
    \/ action.type = "Shell"
    \/ action.type = "RestartService" /\ validate_service_name(action.name).ok

OsAnswers(then) ==
    { os \in [1..Len(then) -> {Err("spawn"), Ok(0), Ok(1)}] :
        \A i \in 1..Len(then) : ~Spawns(then[i]) => os[i] = Ok(0) }

(* r.stats after the "Update stats" block of execute *)
update_stats_no_failure(stats, success, t) ==
    [stats EXCEPT !.applied_count = @ + 1,
                  !.success_count = @ + 1,
                  !.last_applied = Some(to_rfc3339(t))]

update_stats(stats, success, t) ==
    [stats EXCEPT !.applied_count = @ + 1,
                  !.success_count = IF success THEN @ + 1 ELSE @,
                  !.failure_count = IF success THEN @ ELSE @ + 1,
                  !.last_applied = Some(to_rfc3339(t))]

Execute(rule_id) ==
    /\ phase = "ready"
    /\ LET i == find_rule(rules, rule_id)
       IN  IF i = 0
           THEN /\ result' = [rule_id |-> rule_id, pos |-> 0,
                              ret |-> Err(<<"Rule not found: ", rule_id>>),
                              ran |-> <<>>, os |-> <<>>, before |-> None]
                /\ UNCHANGED <<rules, execCalls>>
           ELSE /\ rules[i].stats.applied_count < MaxApplied
                /\ \E os \in OsAnswers(rules[i].then) :
                    LET run == run_actions(rules[i].then, os, 1,
                                   [result |-> ExecutionResultDefault, ran |-> <<>>])
                    IN  /\ rules' = [rules EXCEPT ![i].stats =
                                        update_stats(@, run.result.success, now)]
                        /\ result' = [rule_id |-> rule_id, pos |-> i,
                                      ret |-> Ok(run.result),
                                      ran |-> run.ran, os |-> os,
                                      before |-> rules[i].stats]
                /\ execCalls' = [execCalls EXCEPT ![i].calls = @ + 1]
    /\ UNCHANGED <<files, phase, index, world, matches, lastCryst, now>>
    /\ UNCHANGED <<lifecycleVars, reasoningVars, pureVars, daemonVars>>

(* uuid::Uuid::new_v4(): a value no rule and no file carries yet *)
MaxUuids == 2       \* cap on the ids crystallize draws
UuidPool == <<"rule-u1", "rule-u2", "rule-u3", "rule-u4">>

UsedIds == { rules[i].id : i \in 1..Len(rules) } \cup { f.name : f \in files }

(* solution.success_count as f32
     / (solution.success_count + solution.failure_count + 1) as f32 *)
crystallize_confidence_raw(solution) ==
    F32Div(solution.success_count, solution.success_count + solution.failure_count)

crystallize_confidence(solution) ==
    F32Div(solution.success_count, solution.success_count + solution.failure_count + 1)

(* the Rule value crystallize builds *)
crystallized_rule(rule_id, solution, conditions, actions, t) ==
    LET confidence == crystallize_confidence(solution)
    IN  [id |-> rule_id,
         name |-> <<"Auto: ", solution.problem>>,
         version |-> "1.0.0",
         when |-> conditions,
         then |-> actions,
         provenance |->
            [source |-> Crystallized(solution.id, confidence),
             original_problem |-> solution.problem,
             solution_id |-> Some(solution.id),
             created_at |-> to_rfc3339(t),
             created_by |-> "psa-auto",
             decision_path |->
                << [timestamp |-> to_rfc3339(t),
                    description |-> "Crystallized from proven solution",
                    confidence_before |-> <<0, 1>>,
                    confidence_after |-> confidence,
                    reason |-> <<"Solution proven with", solution.success_count,
                                 solution.failure_count>>] >>,
             history |->
                << [version |-> "1.0.0", timestamp |-> to_rfc3339(t),
                    author |-> "psa-auto", message |-> "Initial crystallization",
                    diff_summary |-> "Created from solution"] >>],
         stats |-> RuleStatsDefault,
         enabled |-> TRUE,
         tags |-> solution.tags]

(* crystallize.  `io` is how far the operating system lets it get:
   "serialize" toml::to_string_pretty fails, "write" std::fs::write fails,
   "git" a git command cannot be spawned (the file is written by then),
   "ok" all of it works. *)
IoOutcomes == {"serialize", "write", "git", "ok"}

Crystallize(solution, conditions, actions, io) ==
    /\ phase = "ready"
    /\ Len(rules) < MaxRules
    /\ \E k \in 1..Min(MaxUuids, Len(UuidPool)) :
        /\ UuidPool[k] \notin UsedIds
        /\ \A j \in 1..(k - 1) : UuidPool[j] \in UsedIds
        /\ LET rule_id == UuidPool[k]
               rule == crystallized_rule(rule_id, solution, conditions, actions, now)
               eng == add_rule([rules |-> rules, index |-> index], rule)
           IN  /\ files' = IF io \in {"git", "ok"}
                           THEN files \cup {File(rule_id, "toml", to_string_pretty(rule).val)}
                           ELSE files
               /\ IF io = "ok"
                  THEN /\ rules' = eng.rules
                       /\ index' = eng.index
                       /\ execCalls' = Append(execCalls, [calls |-> 0, first |-> rule.stats])
                  ELSE UNCHANGED <<rules, index, execCalls>>
               /\ lastCryst' = [solution |-> solution, conditions |-> conditions,
                                actions |-> actions, io |-> io, at |-> now,
                                ret |-> IF io = "ok" THEN Ok(rule_id) ELSE Err(io),
                                rules_before |-> Len(rules),
                                files_before |-> Cardinality(files)]
    /\ UNCHANGED <<phase, world, matches, result, now>>
    /\ UNCHANGED <<lifecycleVars, reasoningVars, pureVars, daemonVars>>

----------------------------------------------------------------------------
(* Rules directories the engine is started on *)
Nginx == <<"n", "g", "x">>
Injected == <<"n", "$", "h">>

LoadedStats ==
    [applied_count |-> 1, success_count |-> 1, failure_count |-> 0,
     escalation_count |-> 0, last_applied |-> Some([text |-> "yesterday"]),
     average_duration_ms |-> None]

LogInfo == Log("info", "m")

(* rule files that differ in their conditions *)
MatchFiles ==
    { RuleFile(Rule("m1", <<FileExists("/f")>>, <<LogInfo>>, TRUE, RuleStatsDefault, <<>>)),
      RuleFile(Rule("m2", <<ProcessRunning(Nginx), ServiceState(Nginx, <<"active">>)>>,
                    <<LogInfo>>, TRUE, RuleStatsDefault, <<>>)),
      RuleFile(Rule("m3", <<>>, <<LogInfo>>, FALSE, RuleStatsDefault, <<>>)),
      RuleFile(Rule("m4", <<Not(ProcessRunning(Injected))>>, <<LogInfo>>, TRUE,
                    RuleStatsDefault, <<>>)),
      RuleFile(Rule("m5", <<FileContains("/log", "ERROR"), ModuleLoaded(<<"n", "x">>),
                            ShellCheck("true")>>,
                    <<LogInfo>>, TRUE, RuleStatsDefault, <<>>)),
      RuleFile(Rule("m6", <<Any(<<PortOpen(22, "tcp"), FileExists("/f")>>),
                            All(<<ShellCheck("true"), Not(ServiceState(Injected, <<"active">>))>>)>>,
                    <<LogInfo>>, TRUE, RuleStatsDefault, <<>>)) }

(* rule files that differ in their actions, and two files that are no rules *)
ExecFiles ==
    { RuleFile(Rule("e1", <<>>, <<LogInfo, Shell("fix", FALSE), Notify("t", "b")>>,
                    TRUE, RuleStatsDefault, <<"net">>)),
      RuleFile(Rule("e2", <<>>, <<Escalate("ask"), LogInfo>>, TRUE, RuleStatsDefault, <<>>)),
      RuleFile(Rule("e3", <<>>, <<Shell("a", TRUE), RestartService(Injected), Shell("b", FALSE)>>,
                    TRUE, LoadedStats, <<"net", "net">>)),
      RuleFile(Rule("e4", <<>>, <<EnableService(Nginx), RestartService(Nginx)>>,
                    FALSE, RuleStatsDefault, <<"svc">>)),
      File("README", "md", [text |-> "# PSA Rules Store"]),
      File("broken", "toml", [text |-> "id ="]) }

Directories(pool) == { d \in SUBSET pool : Cardinality(d) <= MaxFiles }

(* inputs of crystallize *)
CrystSolutions ==
    { Solution("sol-1", "nvidia", <<"gpu">>, 5, 0),
      Solution("sol-2", "wifi", <<"net", "wifi">>, 10, 3),
      Solution("sol-3", "dns", <<>>, 4, 0),
      Solution("sol-4", "swap", <<"mem">>, 6, 4) }
CrystConditions == { <<FileExists("/f")>>, <<>> }
CrystActions == { <<Shell("fix", FALSE), LogInfo>> }

IdleLifecycle ==
    /\ tolerance = None
    /\ proposals = [p \in {} |-> None]
    /\ health_cache = [r \in {} |-> None]
    /\ known_cves = [c \in {} |-> None]
    /\ lastOp = None

IdleReasoning == clauses = <<>>

IdlePure ==
    /\ arg = None
    /\ ret = None

(* no Daemon has been constructed *)
IdleDaemon ==
    /\ cmd_rx = <<>>
    /\ resp_tx = None
    /\ daemon = None
    /\ handlers = <<>>

EngineNew(dirs, worlds) ==
    /\ files \in dirs
    /\ phase = "new"
    /\ rules = <<>>
    /\ index = EmptyIndex
    /\ world \in worlds
    /\ matches = None
    /\ result = None
    /\ execCalls = <<>>
    /\ lastCryst = None
    /\ now = 0

QuietWorld ==
    [pgrep |-> Ok(1), systemctl |-> Ok(<<"inactive", "\n">>), exists |-> FALSE,
     read |-> Ok({}), modules |-> Ok(<< <<"n", "x", "d">> >>), sh |-> Ok(1)]

ExecIds == {"e1", "e2", "e3", "e4", "missing"}

(* the rules engine: construction and execution *)
Init == EngineNew(Directories(ExecFiles), {QuietWorld}) /\ IdleLifecycle /\ IdleReasoning /\ IdleDaemon /\ IdlePure

Next ==
    \/ LoadRules
    \/ \E rule_id \in ExecIds : Execute(rule_id)

Spec == Init /\ [][Next]_vars

(* the rules engine: matching against the operating system's state *)
InitMatch == EngineNew(Directories(MatchFiles), Worlds) /\ IdleLifecycle /\ IdleReasoning /\ IdleDaemon /\ IdlePure

NextMatch ==
    \/ LoadRules
    \/ FindMatching

SpecMatch == InitMatch /\ [][NextMatch]_vars

(* the rules engine: crystallization *)
CrystFiles ==
    { RuleFile(Rule("e2", <<>>, <<Escalate("ask"), LogInfo>>, TRUE, RuleStatsDefault, <<"net">>)),
      File("README", "md", [text |-> "# PSA Rules Store"]) }

InitCrystallize ==
    EngineNew(Directories(CrystFiles), {QuietWorld}) /\ IdleLifecycle /\ IdleReasoning /\ IdleDaemon /\ IdlePure

NextCrystallize ==
    \/ LoadRules
    \/ \E solution \in CrystSolutions, conditions \in CrystConditions,
          actions \in CrystActions, io \in IoOutcomes :
            Crystallize(solution, conditions, actions, io)

SpecCrystallize == InitCrystallize /\ [][NextCrystallize]_vars

----------------------------------------------------------------------------
(* Claims about execute, checked under Spec *)

Executed == result # None /\ result.pos # 0

(* positions of the executed rule's actions that fail under the answers the
   operating system gave during the last execute *)
FailingPositions ==
    { i \in 1..Len(rules[result.pos].then) :
        ~execute_action(rules[result.pos].then[i], result.os[i]).ok }

FirstFailing == CHOOSE k \in FailingPositions : \A j \in FailingPositions : k <= j

(* C1: execute runs the `then` actions in list order and stops at the first
   one that fails: if action k is the first to fail, exactly actions 1..k were
   run, the result has success = false and an error, and outputs holds the
   outputs of actions 1..k-1 in order; if none fails all were run and the
   result is a success.  When the first action fails nothing else runs and
   failure_count grows by exactly 1. *)
C1_ExecuteStopsAtFirstFailure ==
    Executed =>
        LET then == rules[result.pos].then
            res == result.ret.val
            n == IF FailingPositions = {} THEN Len(then) ELSE FirstFailing
            good == IF FailingPositions = {} THEN Len(then) ELSE FirstFailing - 1
        IN  /\ result.ret.ok
            /\ result.ran = [i \in 1..n |-> i]
            /\ res.outputs = [i \in 1..good |-> execute_action(then[i], result.os[i]).val]
            /\ res.success = (FailingPositions = {})
            /\ (res.error # None) = (FailingPositions # {})
            /\ (FailingPositions # {} /\ FirstFailing = 1) =>
                    /\ result.ran = <<1>>
                    /\ res.outputs = <<>>
                    /\ rules[result.pos].stats.failure_count
                         = result.before.failure_count + 1

(* an execute whose second of three actions failed *)
C1_Witness ==
    /\ Executed
    /\ Len(rules[result.pos].then) = 3
    /\ FailingPositions # {}
    /\ FirstFailing = 2
    /\ Len(result.ret.val.outputs) = 1

(* an execute whose first action failed, with another action behind it *)
C1_WitnessFirst ==
    /\ Executed
    /\ Len(rules[result.pos].then) = 2
    /\ 1 \in FailingPositions

(* C2: statistics are updated once per execute call: the executed rule's
   applied_count grows by exactly 1 and exactly one of success_count (all
   actions succeeded) and failure_count (sequence aborted) grows by exactly 1;
   so every rule's counters are its first counters plus its execute calls, and
   a rule that started from zero statistics has
   applied_count = success_count + failure_count = number of execute calls. *)
C2_StatsOncePerExecute ==
    /\ Executed =>
        LET after == rules[result.pos].stats
            before == result.before
            ok == result.ret.val.success
        IN  /\ after.applied_count = before.applied_count + 1
            /\ after.success_count = before.success_count + (IF ok THEN 1 ELSE 0)
            /\ after.failure_count = before.failure_count + (IF ok THEN 0 ELSE 1)
            /\ after.escalation_count = before.escalation_count
    /\ \A i \in 1..Len(rules) :
        LET st == rules[i].stats
            h == execCalls[i]
        IN  /\ st.applied_count = h.first.applied_count + h.calls
            /\ st.success_count + st.failure_count
                 = h.first.success_count + h.first.failure_count + h.calls
            /\ h.first = RuleStatsDefault =>
                    /\ st.applied_count = h.calls
                    /\ st.applied_count = st.success_count + st.failure_count

(* a rule that started from zero and was executed twice, once each way *)
C2_Witness ==
    \E i \in 1..Len(rules) :
        /\ execCalls[i].first = RuleStatsDefault
        /\ execCalls[i].calls = 2
        /\ rules[i].stats.success_count = 1
        /\ rules[i].stats.failure_count = 1

----------------------------------------------------------------------------
(* Claims about find_matching, checked under SpecMatch *)

Matched == matches # None

MatchedSet == { matches.val[k] : k \in 1..Len(matches.val) }

(* C3: find_matching returns exactly the rules that are enabled and whose
   every top-level `when` condition evaluates true, each once, ordered by
   non-increasing number of top-level conditions; a disabled rule is never
   returned. *)
C3_FindMatchingExact ==
    Matched =>
        /\ MatchedSet =
             { i \in 1..Len(rules) :
                 /\ rules[i].enabled
                 /\ \A c \in 1..Len(rules[i].when) :
                        evaluate_condition(rules[i].when[c], world) }
        /\ Cardinality(MatchedSet) = Len(matches.val)
        /\ \A a, b \in 1..Len(matches.val) :
                a < b => Len(rules[matches.val[a]].when) >= Len(rules[matches.val[b]].when)
        /\ \A i \in 1..Len(rules) : ~rules[i].enabled => i \notin MatchedSet

(* two rules matched and the more specific one, stored second, comes first *)
C3_Witness ==
    /\ Matched
    /\ matches.val = <<2, 1>>
    /\ Len(rules[2].when) > Len(rules[1].when)

(* a disabled rule whose conditions hold was left out *)
C3_WitnessDisabled ==
    /\ Matched
    /\ \E i \in 1..Len(rules) :
        /\ ~rules[i].enabled
        /\ evaluate_conditions(rules[i].when, world)
        /\ i \notin MatchedSet
    /\ matches.val # <<>>

(* a probe that cannot be evaluated in world w *)
Unevaluable(condition, w) ==
    CASE condition.type = "ProcessRunning" ->
            ~validate_pattern(condition.name).ok \/ ~w.pgrep.ok
      [] condition.type = "ServiceState" ->
            ~validate_service_name(condition.name).ok \/ ~w.systemctl.ok
      [] condition.type = "FileExists" -> FALSE
      [] condition.type = "FileContains" -> ~w.read.ok
      [] condition.type = "ModuleLoaded" -> ~w.modules.ok
      [] condition.type = "ShellCheck" -> ~w.sh.ok
      [] OTHER -> TRUE

(* whether evaluating the condition consults a probe that cannot be evaluated:
   `all` stops after the first false element, `any` after the first true one *)
RECURSIVE ConsultsUnevaluable(_, _)
ConsultsUnevaluable(condition, w) ==
    CASE condition.type = "All" ->
            \E i \in 1..Len(condition.conditions) :
                /\ \A j \in 1..(i - 1) : evaluate_condition(condition.conditions[j], w)
                /\ ConsultsUnevaluable(condition.conditions[i], w)
      [] condition.type = "Any" ->
            \E i \in 1..Len(condition.conditions) :
                /\ \A j \in 1..(i - 1) : ~evaluate_condition(condition.conditions[j], w)
                /\ ConsultsUnevaluable(condition.conditions[i], w)
      [] condition.type = "Not" -> ConsultsUnevaluable(condition.condition, w)
      [] OTHER -> Unevaluable(condition, w)

(* C4: condition evaluation is fail-closed: a rule whose evaluation consulted
   a probe that could not be evaluated (spawn error, name rejected by
   validation, unreadable file, variant without a probe), at any depth under
   All, Any and Not, is not returned by find_matching. *)
C4_FailClosed ==
    Matched =>
        \A i \in MatchedSet :
            ~ConsultsUnevaluable(All(rules[i].when), world)

----------------------------------------------------------------------------
(* lifecycle.rs: ToleranceConfig and assess_health *)
ToleranceDefault ==
    [min_success_rate |-> <<4, 5>>,         \* 0.8
     min_samples |-> 10,
     variance_threshold |-> <<1, 20>>,      \* 0.05
     failure_review_threshold |-> 3,
     rate_window_secs |-> 604800]

Healthy == [variant |-> "Healthy"]
Degrading(current_rate, trend) ==
    [variant |-> "Degrading", current_rate |-> current_rate, trend |-> trend]
NeedsReview(reason) == [variant |-> "NeedsReview", reason |-> reason]
PossiblyObsolete(reason) == [variant |-> "PossiblyObsolete", reason |-> reason]
Probationary(applications, required) ==
    [variant |-> "Probationary", applications |-> applications, required |-> required]

(* age.num_seconds() > rate_window_secs * 4, for a last_applied that is
   present and parses; age.num_days() goes into the reason *)
stale(tol, stats, t) ==
    /\ stats.last_applied # None
    /\ parse_from_rfc3339(stats.last_applied.val).ok
    /\ t - parse_from_rfc3339(stats.last_applied.val).val > tol.rate_window_secs * 4

(* the value assess_health returns *)
assess_health_rate_first(tol, rule, t) ==
    LET stats == rule.stats
    IN  IF stats.applied_count < tol.min_samples
        THEN Probationary(stats.applied_count, tol.min_samples)
        ELSE IF RatLt(F32Div(stats.success_count, stats.applied_count), tol.min_success_rate)
        THEN Degrading(F32Div(stats.success_count, stats.applied_count), <<-1, 10>>)
        ELSE IF /\ stats.failure_count >= tol.failure_review_threshold
                /\ RatGt(F32Div(stats.failure_count, stats.applied_count), <<3, 10>>)
        THEN NeedsReview(<<"High failure rate", stats.failure_count, stats.applied_count>>)
        ELSE IF stats.escalation_count > stats.success_count \div 2
        THEN NeedsReview(<<"High escalation rate", stats.escalation_count>>)
        ELSE IF stale(tol, stats, t)
        THEN PossiblyObsolete(<<"No applications in days",
                (t - parse_from_rfc3339(stats.last_applied.val).val) \div 86400>>)
        ELSE Healthy

assess_health(tol, rule, t) ==
    LET stats == rule.stats
    IN  IF stats.applied_count < tol.min_samples
        THEN Probationary(stats.applied_count, tol.min_samples)
        ELSE IF /\ stats.failure_count >= tol.failure_review_threshold
                /\ RatGt(F32Div(stats.failure_count, stats.applied_count), <<3, 10>>)
        THEN NeedsReview(<<"High failure rate", stats.failure_count, stats.applied_count>>)
        ELSE IF stats.escalation_count > stats.success_count \div 2
        THEN NeedsReview(<<"High escalation rate", stats.escalation_count>>)
        ELSE IF stale(tol, stats, t)
        THEN PossiblyObsolete(<<"No applications in days",
                (t - parse_from_rfc3339(stats.last_applied.val).val) \div 86400>>)
        ELSE IF RatLt(F32Div(stats.success_count, stats.applied_count), tol.min_success_rate)
        THEN Degrading(F32Div(stats.success_count, stats.applied_count), <<-1, 10>>)
        ELSE Healthy

(* assess_health as an operation of the manager: only Healthy is cached *)
AssessHealth ==
    /\ arg # None
    /\ ret = None
    /\ LET h == assess_health(tolerance, arg, now)
       IN  /\ ret' = Some(h)
           /\ health_cache' =
                IF h = Healthy
                THEN [r \in DOMAIN health_cache \cup {arg.id} |->
                        IF r = arg.id THEN h ELSE health_cache[r]]
                ELSE health_cache
           /\ lastOp' = [op |-> "assess_health", id |-> arg.id]
    /\ UNCHANGED <<tolerance, proposals, known_cves, arg>>
    /\ UNCHANGED <<engineVars, reasoningVars, daemonVars>>

(* the rules assess_health is asked about *)
MaxStat == 20       \* applied, success and failure counts drawn
MaxEsc == 2         \* escalation counts drawn

NowHealth == ToleranceDefault.rate_window_secs * 4 + 1

StatsInput(a, sc, f, e, l) ==
    [applied_count |-> a, success_count |-> sc, failure_count |-> f,
     escalation_count |-> e, last_applied |-> l, average_duration_ms |-> None]

LastAppliedInputs ==
    {None, Some([text |-> "yesterday"]), Some(to_rfc3339(0)), Some(to_rfc3339(1))}

IdleEngine ==
    /\ files = {}
    /\ phase = "ready"
    /\ rules = <<>>
    /\ index = EmptyIndex
    /\ world = QuietWorld
    /\ matches = None
    /\ result = None
    /\ execCalls = <<>>
    /\ lastCryst = None

InitHealth ==
    /\ IdleEngine
    /\ IdleReasoning /\ IdleDaemon
    /\ now = NowHealth
    /\ tolerance = ToleranceDefault
    /\ proposals = [p \in {} |-> None]
    /\ health_cache = [r \in {} |-> None]
    /\ known_cves = [c \in {} |-> None]
    /\ lastOp = None
    /\ \E a \in 0..MaxStat, sc \in 0..MaxStat, f \in 0..MaxStat, e \in 0..MaxEsc,
          l \in LastAppliedInputs :
            arg = Rule("h1", <<>>, <<>>, TRUE, StatsInput(a, sc, f, e, l), <<>>)
    /\ ret = None

NextHealth == AssessHealth

SpecHealth == InitHealth /\ [][NextHealth]_vars

(* C5: assess_health returns the first rung of the ladder that applies:
   (1) applied_count < min_samples: Probationary{applied_count, min_samples},
   whatever the other statistics; (2) failure_count >= failure_review_threshold
   and failure_count/applied_count > 0.3: NeedsReview; (3) escalation_count >
   success_count/2: NeedsReview; (4) last application (recorded, well formed)
   more than 4 x rate_window ago: PossiblyObsolete; (5) success_count /
   applied_count < min_success_rate: Degrading; (6) otherwise Healthy.  With
   the defaults applied 3 gives Probationary{3,10}, and applied 20, success 18,
   failure 4 gives Healthy. *)
C5_HealthLadder ==
    ret # None =>
        LET st == arg.stats
            h == ret.val
            r1 == st.applied_count < tolerance.min_samples
            r2 == /\ st.failure_count >= tolerance.failure_review_threshold
                  /\ 10 * st.failure_count > 3 * st.applied_count
            r3 == 2 * st.escalation_count > st.success_count
            r4 == /\ st.last_applied # None
                  /\ "rfc3339" \in DOMAIN st.last_applied.val
                  /\ now - st.last_applied.val.rfc3339 > 4 * tolerance.rate_window_secs
            r5 == st.success_count * tolerance.min_success_rate[2]
                    < tolerance.min_success_rate[1] * st.applied_count
        IN  /\ r1 => h = Probationary(st.applied_count, tolerance.min_samples)
            /\ (~r1 /\ r2) => (h.variant = "NeedsReview" /\ h.reason[1] = "High failure rate")
            /\ (~r1 /\ ~r2 /\ r3) =>
                    (h.variant = "NeedsReview" /\ h.reason[1] = "High escalation rate")
            /\ (~r1 /\ ~r2 /\ ~r3 /\ r4) => h.variant = "PossiblyObsolete"
            /\ (~r1 /\ ~r2 /\ ~r3 /\ ~r4 /\ r5) => h.variant = "Degrading"
            /\ (~r1 /\ ~r2 /\ ~r3 /\ ~r4 /\ ~r5) => h = Healthy
            /\ (tolerance = ToleranceDefault /\ st.applied_count = 3) => h = Probationary(3, 10)
            /\ (/\ tolerance = ToleranceDefault
                /\ st.applied_count = 20 /\ st.success_count = 18 /\ st.failure_count = 4
                /\ st.escalation_count = 0 /\ st.last_applied = None) => h = Healthy

(* a rule past probation that is both stale and below the success rate, and
   whose failures and escalations are low: the staleness rung wins *)
C5_Witness ==
    /\ ret # None
    /\ arg.stats.applied_count = 20
    /\ arg.stats.success_count = 10
    /\ arg.stats.failure_count = 6
    /\ arg.stats.escalation_count = 0
    /\ arg.stats.last_applied = Some(to_rfc3339(0))
    /\ ret.val.variant = "PossiblyObsolete"

----------------------------------------------------------------------------
(* lifecycle.rs: the proposal workflow *)
Success == [variant |-> "Success"]
Failure(error) == [variant |-> "Failure", error |-> error]
Partial(details) == [variant |-> "Partial", details |-> details]

ProposalEvidence(t, outcome) ==
    [timestamp |-> to_rfc3339(t), source |-> "daemon", outcome |-> outcome]

Gathering(count, required) ==
    [variant |-> "Gathering", count |-> count, required |-> required]
PendingReview == [variant |-> "PendingReview"]

(* evidence.iter().filter(|e| matches!(e.outcome, EvidenceOutcome::Success)).count() *)
successes_not_failed(evidence) ==
    Cardinality({ i \in 1..Len(evidence) : evidence[i].outcome.variant # "Failure" })

successes(evidence) ==
    Cardinality({ i \in 1..Len(evidence) : evidence[i].outcome.variant = "Success" })

(* the "Check if ready for review" block of add_evidence *)
advance_status_late(status) ==
    IF status.variant = "Gathering"
    THEN IF status.count + 1 > status.required
         THEN PendingReview
         ELSE Gathering(status.count + 1, status.required)
    ELSE status

advance_status(status) ==
    IF status.variant = "Gathering"
    THEN IF status.count + 1 >= status.required
         THEN PendingReview
         ELSE Gathering(status.count + 1, status.required)
    ELSE status

MaxProposals == 2   \* cap on the proposals created
MaxEvidence == 6    \* cap on the evidence entries held by all proposals

ProposalPool == <<"proposal-u1", "proposal-u2", "proposal-u3", "proposal-u4">>

Outcomes == {Success, Failure("e"), Partial("d")}

TotalEvidence ==
    LET RECURSIVE Sum(_)
        Sum(S) == IF S = {} THEN 0
                  ELSE LET x == CHOOSE x \in S : TRUE
                       IN  Len(proposals[x].evidence) + Sum(S \ {x})
    IN  Sum(DOMAIN proposals)

ProposeRule(problem_pattern, conditions, actions, initial_evidence) ==
    /\ Cardinality(DOMAIN proposals) < Min(MaxProposals, Len(ProposalPool))
    /\ TotalEvidence < MaxEvidence
    /\ LET id == ProposalPool[Cardinality(DOMAIN proposals) + 1]
           proposal == [id |-> id,
                        problem_pattern |-> problem_pattern,
                        suggested_conditions |-> conditions,
                        suggested_actions |-> actions,
                        evidence |-> <<initial_evidence>>,
                        confidence |-> <<1, 10>>,
                        status |-> Gathering(1, 5),
                        created_at |-> to_rfc3339(now)]
       IN  /\ proposals' = [q \in DOMAIN proposals \cup {id} |->
                                IF q = id THEN proposal ELSE proposals[q]]
           /\ lastOp' = [op |-> "propose_rule", id |-> id, ret |-> Ok(id),
                         evidence |-> initial_evidence, before |-> None]
    /\ UNCHANGED <<tolerance, health_cache, known_cves>>
    /\ UNCHANGED <<engineVars, reasoningVars, pureVars, daemonVars>>

AddEvidence(proposal_id, evidence) ==
    /\ TotalEvidence < MaxEvidence
    /\ IF proposal_id \notin DOMAIN proposals
       THEN /\ lastOp' = [op |-> "add_evidence", id |-> proposal_id,
                          ret |-> Err(<<"Proposal not found: ", proposal_id>>),
                          evidence |-> evidence, before |-> None]
            /\ UNCHANGED proposals
       ELSE LET old == proposals[proposal_id]
                all == Append(old.evidence, evidence)
            IN  /\ proposals' = [proposals EXCEPT ![proposal_id] =
                        [old EXCEPT !.evidence = all,
                                    !.confidence = F32Div(successes(all), Len(all)),
                                    !.status = advance_status(old.status)]]
                /\ lastOp' = [op |-> "add_evidence", id |-> proposal_id, ret |-> Ok("unit"),
                              evidence |-> evidence, before |-> Some(old)]
    /\ UNCHANGED <<tolerance, health_cache, known_cves>>
    /\ UNCHANGED <<engineVars, reasoningVars, pureVars, daemonVars>>

InitLifecycle ==
    /\ IdleEngine
    /\ IdleReasoning /\ IdleDaemon
    /\ now = 0
    /\ tolerance = ToleranceDefault
    /\ proposals = [p \in {} |-> None]
    /\ health_cache = [r \in {} |-> None]
    /\ known_cves = [c \in {} |-> None]
    /\ lastOp = None
    /\ IdlePure

NextLifecycle ==
    \/ \E outcome \in Outcomes :
            ProposeRule("dns fails", <<FileExists("/f")>>, <<LogInfo>>,
                        ProposalEvidence(now, outcome))
    \/ \E id \in {"proposal-u1", "proposal-u2", "proposal-u3", "missing"}, outcome \in Outcomes :
            AddEvidence(id, ProposalEvidence(now, outcome))

SpecLifecycle == InitLifecycle /\ [][NextLifecycle]_vars

(* C6: propose_rule creates a proposal in Gathering{1, 5} holding exactly the
   initial evidence; each add_evidence appends one entry and, in Gathering,
   raises count by 1; the status is PendingReview exactly from the moment count
   reaches required, that is after the 4th add_evidence; while Gathering, count
   is the number of evidence entries and is below required. *)
C6_ProposalWorkflow ==
    /\ \A id \in DOMAIN proposals :
        LET q == proposals[id]
        IN  /\ Len(q.evidence) >= 1
            /\ (q.status = PendingReview) = (Len(q.evidence) - 1 >= 4)
            /\ q.status # PendingReview =>
                    /\ q.status = Gathering(Len(q.evidence), 5)
                    /\ q.status.count < q.status.required
    /\ (lastOp # None /\ lastOp.op = "propose_rule") =>
            /\ proposals[lastOp.id].status = Gathering(1, 5)
            /\ proposals[lastOp.id].evidence = <<lastOp.evidence>>
    /\ (lastOp # None /\ lastOp.op = "add_evidence" /\ lastOp.ret.ok) =>
            LET old == lastOp.before.val
                new == proposals[lastOp.id]
            IN  /\ new.evidence = Append(old.evidence, lastOp.evidence)
                /\ old.status.variant = "Gathering" =>
                        \/ new.status = Gathering(old.status.count + 1, 5)
                        \/ /\ new.status = PendingReview
                           /\ old.status.count + 1 = old.status.required
                /\ old.status = PendingReview => new.status = PendingReview

(* the 4th add_evidence has just moved a proposal to PendingReview *)
C6_Witness ==
    /\ lastOp # None
    /\ lastOp.op = "add_evidence"
    /\ lastOp.ret.ok
    /\ lastOp.before.val.status = Gathering(4, 5)
    /\ proposals[lastOp.id].status = PendingReview
    /\ Len(proposals[lastOp.id].evidence) = 5

(* successes / total of an evidence list, as a reduced fraction *)
Ratio(evidence) ==
    LET n == Cardinality({ i \in 1..Len(evidence) : evidence[i].outcome = Success })
        g == Gcd(n, Len(evidence))
    IN  <<n \div g, Len(evidence) \div g>>

(* C7 as stated: every proposal's confidence is the number of its Success
   evidence entries divided by the number of its evidence entries, from
   propose_rule on. *)
C7_ConfidenceIsRatio ==
    \A id \in DOMAIN proposals :
        proposals[id].confidence = Ratio(proposals[id].evidence)

(* C7 amended: after every add_evidence a proposal's confidence is the number
   of its Success entries divided by the number of its entries (Failure and
   Partial count as non-success); a proposal that holds only its initial
   evidence has the confidence 0.1 propose_rule gave it. *)
C7_ConfidenceAfterEvidence ==
    \A id \in DOMAIN proposals :
        LET q == proposals[id]
        IN  IF Len(q.evidence) = 1
            THEN q.confidence = <<1, 10>>
            ELSE q.confidence = Ratio(q.evidence)

(* a proposal with one entry of each outcome: confidence 1/3 *)
C7_Witness ==
    \E id \in DOMAIN proposals :
        LET q == proposals[id]
        IN  /\ Len(q.evidence) = 3
            /\ { q.evidence[i].outcome.variant : i \in 1..3 } = {"Success", "Failure", "Partial"}
            /\ q.confidence = <<1, 3>>

----------------------------------------------------------------------------
(* should_crystallize on its own *)
ShouldCrystallize ==
    /\ arg # None
    /\ ret = None
    /\ ret' = Some(should_crystallize(arg))
    /\ UNCHANGED arg
    /\ UNCHANGED <<engineVars, lifecycleVars, reasoningVars, daemonVars>>

InitPure ==
    /\ IdleEngine
    /\ IdleReasoning /\ IdleDaemon
    /\ now = 0
    /\ IdleLifecycle
    /\ arg \in SolutionInputs
    /\ ret = None

NextPure == ShouldCrystallize

SpecPure == InitPure /\ [][NextPure]_vars

(* C8: should_crystallize(solution) is true exactly when success_count >= 5
   and failure_count < success_count/2 (u32 division, so exactly when
   2 * (failure_count + 1) <= success_count); it is false for (4,0), true for
   (5,0), false for (6,4), true for (10,3). *)
C8_ShouldCrystallize ==
    ret # None =>
        LET sc == arg.success_count
            f == arg.failure_count
        IN  /\ ret.val = (sc >= 5 /\ 2 * (f + 1) <= sc)
            /\ (sc = 4 /\ f = 0) => ret.val = FALSE
            /\ (sc = 5 /\ f = 0) => ret.val = TRUE
            /\ (sc = 6 /\ f = 4) => ret.val = FALSE
            /\ (sc = 10 /\ f = 3) => ret.val = TRUE

(* the threshold itself: five successes and no failure crystallize *)
C8_Witness ==
    /\ ret # None
    /\ arg.success_count = 5
    /\ arg.failure_count = 0
    /\ ret.val = TRUE

----------------------------------------------------------------------------
(* Claims about crystallize, checked under SpecCrystallize *)

CrystallizedRules ==
    { i \in 1..Len(rules) : rules[i].provenance.source.variant = "Crystallized" }

(* C9: crystallize creates a rule only from a solution that meets the
   requirement success_count >= 5 and failure_count < success_count/2: every
   rule whose source is Crystallized comes from such a solution, and a
   crystallize call on a solution that does not meet it adds no rule. *)
C9_CrystallizeRequiresProof ==
    /\ \A i \in CrystallizedRules :
        \E sol \in CrystSolutions :
            /\ sol.id = rules[i].provenance.source.solution_id
            /\ sol.success_count >= CRYSTALLIZATION_THRESHOLD
            /\ sol.failure_count < sol.success_count \div 2
    /\ (lastCryst # None /\ ~should_crystallize(lastCryst.solution)) =>
            Len(rules) = lastCryst.rules_before

(* C10: a successful crystallize appends exactly one rule to the in-memory
   store and persists it, with when = conditions, then = actions, version
   "1.0.0", source Crystallized{solution.id, success/(success+failure+1)}, one
   decision-path entry, one version-history entry at "1.0.0", zeroed
   statistics and the solution's tags; the returned id is that rule's id. *)
C10_CrystallizeBuildsRule ==
    (lastCryst # None /\ lastCryst.ret.ok) =>
        LET sol == lastCryst.solution
            r == rules[Len(rules)]
            g == Gcd(sol.success_count, sol.success_count + sol.failure_count + 1)
        IN  /\ Len(rules) = lastCryst.rules_before + 1
            /\ r.id = lastCryst.ret.val
            /\ \A i \in 1..(Len(rules) - 1) : rules[i].id # r.id
            /\ r.when = lastCryst.conditions
            /\ r.then = lastCryst.actions
            /\ r.version = "1.0.0"
            /\ r.provenance.source =
                 Crystallized(sol.id,
                    <<sol.success_count \div g,
                      (sol.success_count + sol.failure_count + 1) \div g>>)
            /\ Len(r.provenance.decision_path) = 1
            /\ Len(r.provenance.history) = 1
            /\ r.provenance.history[1].version = "1.0.0"
            /\ r.stats = RuleStatsDefault
            /\ r.tags = sol.tags
            /\ \A k \in 1..Len(r.tags) : Len(rules) - 1 \in
                    { index[r.tags[k]][j] : j \in 1..Len(index[r.tags[k]]) }
            /\ \E f \in files :
                /\ f.name = r.id
                /\ f.ext = "toml"
                /\ from_str(f.content) = Ok(r)

(* a second rule crystallized from the solution with 10 successes and 3
   failures: confidence 10/14 *)
C10_Witness ==
    /\ lastCryst # None
    /\ lastCryst.ret.ok
    /\ lastCryst.solution.success_count = 10
    /\ lastCryst.solution.failure_count = 3
    /\ Len(rules) = 2
    /\ rules[2].provenance.source.confidence = <<5, 7>>
    /\ rules[2].when # <<>>

(* C11: a rule newly created by crystallize is not enabled: it is not among
   the rules find_matching returns (the rules the daemon's periodic rule
   application executes), whatever its conditions evaluate to. *)
C11_CrystallizedAwaitsReview ==
    (lastCryst # None /\ lastCryst.ret.ok) =>
        LET n == Len(rules)
            found == find_matching(rules, world)
        IN  /\ ~rules[n].enabled
            /\ \A k \in 1..Len(found) : found[k] # n

----------------------------------------------------------------------------
(* The reasoning engine (src/src/reasoning/mod.rs): terms and unification *)

(* enum Term; every variant is kept in one record shape *)
Atom(s) == [kind |-> "Atom", name |-> s, args |-> <<>>]
Var(s) == [kind |-> "Var", name |-> s, args |-> <<>>]
Compound(name, args) == [kind |-> "Compound", name |-> name, args |-> args]
List(items) == [kind |-> "List", name |-> "", args |-> items]

(* type Substitution = HashMap<String, Term> *)
EmptySubst == [v \in {} |-> None]

(* HashMap::insert on a clone of the substitution *)
insert(subst, v, t) == [x \in DOMAIN subst \cup {v} |-> IF x = v THEN t ELSE subst[x]]

(* A call that never returns.  unify, walk and query recurse with no depth
   limit, so a recursion that re-enters a call it is still inside never ends
   (the process dies of stack exhaustion); the operators below carry the calls
   in progress and give Diverges for such a call. *)
Diverges == [tag |-> "Diverges"]
Diverged == [kind |-> "Diverges", name |-> "", args |-> <<>>]

(* walk: follows the bindings of a variable until a term that is not a bound
   variable; `seen` holds the variables already followed *)
RECURSIVE walk_from(_, _, _)
walk_from(term, subst, seen) ==
    IF term.kind = "Var" /\ term.name \in DOMAIN subst
    THEN IF term.name \in seen
         THEN Diverged
         ELSE walk_from(subst[term.name], subst, seen \cup {term.name})
    ELSE term

walk(term, subst) == walk_from(term, subst, {})

(* mutant of bind_var: binds the variable of the right-hand side first *)
bind_var_right_first(a, b, subst) ==
    IF b.kind = "Var" THEN Some(insert(subst, b.name, a)) ELSE Some(insert(subst, a.name, b))

(* mutant of bind_var: only a variable on the left-hand side is bound *)
bind_var_left_only(a, b, subst) ==
    IF a.kind = "Var" THEN Some(insert(subst, a.name, b)) ELSE None

(* the arm (Term::Var(v), t) | (t, Term::Var(v)), reached when one of the
   walked terms is a variable: the left alternative is tried first *)
bind_var(a, b, subst) ==
    IF a.kind = "Var" THEN Some(insert(subst, a.name, b)) ELSE Some(insert(subst, b.name, a))

(* unify; `active` holds the calls (walked terms and substitution) that are
   still in progress around this one *)
RECURSIVE unify_in(_, _, _, _)
RECURSIVE unify_args(_, _, _, _, _)
unify_in(t1, t2, subst, active) ==
    LET a == walk(t1, subst)
        b == walk(t2, subst)
        call == <<a, b, subst>>
    IN  IF a = Diverged \/ b = Diverged \/ call \in active
        THEN Diverges
        ELSE CASE a.kind = "Var" /\ b.kind = "Var" /\ a.name = b.name -> Some(subst)
               [] /\ (a.kind = "Var" \/ b.kind = "Var")
                  /\ ~(a.kind = "Var" /\ b.kind = "Var" /\ a.name = b.name) ->
                        bind_var(a, b, subst)
               [] a.kind = "Atom" /\ b.kind = "Atom" /\ a.name = b.name -> Some(subst)
               [] /\ a.kind = "Compound" /\ b.kind = "Compound"
                  /\ a.name = b.name /\ Len(a.args) = Len(b.args) ->
                        unify_args(a.args, b.args, subst, 1, active \cup {call})
               [] a.kind = "List" /\ b.kind = "List" /\ Len(a.args) = Len(b.args) ->
                        unify_args(a.args, b.args, subst, 1, active \cup {call})
               [] OTHER -> None

(* the loop over args1.iter().zip(args2.iter()) with `?` *)
unify_args(args1, args2, current_subst, i, active) ==
    IF i > Len(args1)
    THEN Some(current_subst)
    ELSE LET r == unify_in(args1[i], args2[i], current_subst, active)
         IN  IF r.tag = "Some"
             THEN unify_args(args1, args2, r.val, i + 1, active)
             ELSE r

unify(t1, t2, subst) == unify_in(t1, t2, subst, {})

(* terms and substitutions drawn for unify *)
MaxArity == 2       \* arguments of a compound, elements of a list

Leaves == {Atom("a"), Atom("b"), Var("X"), Var("Y")}

RECURSIVE Tuples(_, _)
Tuples(S, n) ==
    IF n = 0 THEN {<<>>} ELSE { Append(t, x) : t \in Tuples(S, n - 1), x \in S }

ArgLists == UNION { Tuples(Leaves, n) : n \in 1..MaxArity }

Terms ==
    Leaves
    \cup { Compound("f", args) : args \in ArgLists }
    \cup { Compound("g", <<x>>) : x \in Leaves }
    \cup { List(items) : items \in ArgLists \cup {<<>>} }

GX == Compound("g", <<Var("X")>>)
GY == Compound("g", <<Var("Y")>>)

(* pairs of deeper terms: a variable met again after it was bound to a term
   that contains it *)
DeepPairs ==
    { <<Compound("f", <<Var("X"), Var("Y"), Var("X")>>),
        Compound("f", <<GX, GY, Var("Y")>>)>>,
      <<Compound("f", <<GX, GY, Var("Y")>>),
        Compound("f", <<Var("X"), Var("Y"), Var("X")>>)>>,
      <<List(<<Var("X"), Var("X")>>), List(<<GX, Compound("g", <<GX>>)>>)>>,
      <<List(<<Var("X"), GX>>), List(<<GY, Var("Y")>>)>>,
      <<Compound("f", <<Var("X"), GX>>), Compound("f", <<Compound("g", <<Atom("a")>>), Var("Y")>>)>>,
      <<Compound("solves", <<Atom("nvidia_driver"), Var("Solution")>>),
        Compound("solves", <<Atom("nvidia_driver"), Atom("modprobe nvidia")>>)>> }

(* lists of three elements, each a leaf or g of a leaf *)
DeepLists ==
    LET Elems == {Atom("a"), Var("X"), Var("Y"), GX, GY, Compound("g", <<Atom("a")>>)}
    IN  { List(<<x, y, z>>) : x \in Elems, y \in Elems, z \in Elems }

Substs ==
    { EmptySubst,
      insert(EmptySubst, "X", Atom("a")),
      insert(EmptySubst, "X", Var("Y")),
      insert(insert(EmptySubst, "X", Var("Y")), "Y", Atom("b")),
      insert(EmptySubst, "Y", GX),
      insert(EmptySubst, "X", GX),
      insert(insert(EmptySubst, "X", Var("Y")), "Y", Var("X")) }

Unify ==
    /\ arg # None
    /\ ret = None
    /\ ret' = Some(unify(arg.t1, arg.t2, arg.subst))
    /\ UNCHANGED arg
    /\ UNCHANGED <<engineVars, lifecycleVars, reasoningVars, daemonVars>>

InitUnify ==
    /\ IdleEngine
    /\ now = 0
    /\ IdleLifecycle
    /\ IdleReasoning /\ IdleDaemon
    /\ \/ \E p \in (Terms \X Terms) \cup DeepPairs, s \in Substs :
                arg = [t1 |-> p[1], t2 |-> p[2], subst |-> s]
       \/ \E t1 \in DeepLists, t2 \in DeepLists :
                arg = [t1 |-> t1, t2 |-> t2, subst |-> EmptySubst]
    /\ ret = None

NextUnify == Unify

SpecUnify == InitUnify /\ [][NextUnify]_vars

----------------------------------------------------------------------------
(* Claims about unify, checked under SpecUnify *)

RefFuel == 12       \* steps given to the reference unifier

(* the reference unifier without occurs-check, as a list of pairs still to
   be unified: a pair is resolved through s and replaced by its argument pairs;
   it gives Diverges when RefFuel steps did not finish the list *)
RECURSIVE RefResolve(_, _, _)
RefResolve(t, s, fuel) ==
    IF t.kind # "Var" \/ t.name \notin DOMAIN s THEN t
    ELSE IF fuel = 0 THEN Diverged
    ELSE RefResolve(s[t.name], s, fuel - 1)

RECURSIVE RefSolve(_, _, _)
RefSolve(work, s, fuel) ==
    IF work = <<>> THEN Some(s)
    ELSE IF fuel = 0 THEN Diverges
    ELSE LET a == RefResolve(Head(work)[1], s, RefFuel)
             b == RefResolve(Head(work)[2], s, RefFuel)
             rest == Tail(work)
             with(v, t) == [x \in DOMAIN s \cup {v} |-> IF x = v THEN t ELSE s[x]]
         IN  IF a = Diverged \/ b = Diverged THEN Diverges
             ELSE IF a.kind = "Var" /\ a = b THEN RefSolve(rest, s, fuel - 1)
             ELSE IF a.kind = "Var" THEN RefSolve(rest, with(a.name, b), fuel - 1)
             ELSE IF b.kind = "Var" THEN RefSolve(rest, with(b.name, a), fuel - 1)
             ELSE IF a.kind # b.kind THEN None
             ELSE IF a.kind = "Atom" THEN (IF a.name = b.name THEN RefSolve(rest, s, fuel - 1) ELSE None)
             ELSE IF a.name # b.name \/ Len(a.args) # Len(b.args) THEN None
             ELSE RefSolve([k \in 1..Len(a.args) |-> <<a.args[k], b.args[k]>>] \o rest,
                           s, fuel - 1)

Unified == ret # None

(* C12: unify(t1, t2, s) equals the reference unifier without occurs-check.
   In particular, with the empty substitution, an atom unifies with itself and
   not with another atom, a variable and any other term t give exactly the
   binding of the variable to t, and an atom, a compound and a list never
   unify with a term of another of these kinds. *)
C12_UnifyIsReference ==
    Unified =>
        LET t1 == arg.t1
            t2 == arg.t2
            r == ret.val
        IN  /\ r = RefSolve(<< <<t1, t2>> >>, arg.subst, RefFuel)
            /\ arg.subst = EmptySubst =>
                /\ (t1.kind = "Atom" /\ t2.kind = "Atom") =>
                        (r = IF t1.name = t2.name THEN Some(EmptySubst) ELSE None)
                /\ (t1.kind = "Var" /\ t2 # t1) =>
                        (r = Some([x \in {t1.name} |-> t2]))
                /\ (t1.kind = "Var" /\ t2 = t1) => r = Some(EmptySubst)
                /\ (/\ {t1.kind, t2.kind} \subseteq {"Atom", "Compound", "List"}
                    /\ t1.kind # t2.kind) => r = None

(* two compounds sharing a variable, unified under a substitution that
   already binds it: the arguments are unified left to right and the second
   pair sees the binding made for the first *)
C12_Witness ==
    /\ Unified
    /\ arg.t1 = Compound("f", <<Var("Y"), Var("X")>>)
    /\ arg.t2 = Compound("f", <<Atom("a"), Var("Y")>>)
    /\ arg.subst = [x \in {"X"} |-> Atom("a")]
    /\ ret.val = Some([x \in {"X", "Y"} |-> Atom("a")])

(* C13: for all terms A and B, unify(A, B, {}) succeeds if and only if
   unify(B, A, {}) succeeds. *)
C13_UnifySymmetricSuccess ==
    (Unified /\ arg.subst = EmptySubst) =>
        ((ret.val.tag = "Some") <=> (unify(arg.t2, arg.t1, EmptySubst).tag = "Some"))

(* two different variables: both orders succeed and the bindings differ in
   direction *)
C13_Witness ==
    /\ Unified
    /\ arg.subst = EmptySubst
    /\ arg.t1 = Compound("f", <<Var("X"), Atom("a")>>)
    /\ arg.t2 = Compound("f", <<Var("Y"), Var("X")>>)
    /\ ret.val = Some([x \in {"X", "Y"} |-> IF x = "X" THEN Var("Y") ELSE Atom("a")])
    /\ unify(arg.t2, arg.t1, EmptySubst) =
            Some([x \in {"X", "Y"} |-> IF x = "Y" THEN Var("X") ELSE Atom("a")])

(* C14: for every pair of finite terms and the empty substitution, unify
   returns: its result is a substitution or None, also when a variable was
   bound to a term that contains it. *)
C14_UnifyTotal ==
    (Unified /\ arg.subst = EmptySubst) => ret.val.tag \in {"Some", "None"}

----------------------------------------------------------------------------
(* The reasoning engine: the clause store and query.  A confidence is an f32;
   it is kept as a reduced fraction, and the confidences that are multiplied
   are halves and quarters, whose products are exact in f32. *)

Clause(head, body, confidence) == [head |-> head, body |-> body, confidence |-> confidence]

add_fact(cls, head, confidence) == Append(cls, Clause(head, <<>>, confidence))
add_clause(cls, head, body, confidence) == Append(cls, Clause(head, body, confidence))

(* a * b on f32 *)
F32Mul(q, r) == F32Div(q[1] * r[1], q[2] * r[2])

(* HashMap::extend: the bindings of `new` replace those of `cur` *)
extend(cur, new) ==
    [x \in DOMAIN cur \cup DOMAIN new |-> IF x \in DOMAIN new THEN new[x] ELSE cur[x]]

(* mutant of sort_by_confidence: ascending *)
RECURSIVE sort_by_confidence_ascending(_)
sort_by_confidence_ascending(rs) ==
    IF rs = <<>> THEN <<>>
    ELSE LET n == Len(rs)
             x == rs[n]
             front == sort_by_confidence_ascending(SubSeq(rs, 1, n - 1))
             keep == { k \in 0..Len(front) :
                        \A j \in 1..k : ~RatGt(front[j].confidence, x.confidence) }
             k == CHOOSE k \in keep : \A k2 \in keep : k2 <= k
         IN  SubSeq(front, 1, k) \o <<x>> \o SubSeq(front, k + 1, Len(front))

(* results.sort_by(|a, b| b.1.partial_cmp(&a.1)...): a stable sort, greatest
   confidence first, here by insertion *)
RECURSIVE sort_by_confidence(_)
sort_by_confidence(rs) ==
    IF rs = <<>> THEN <<>>
    ELSE LET n == Len(rs)
             x == rs[n]
             front == sort_by_confidence(SubSeq(rs, 1, n - 1))
             \* x goes after every element that does not compare less
             keep == { k \in 0..Len(front) :
                        \A j \in 1..k : ~RatLt(front[j].confidence, x.confidence) }
             k == CHOOSE k \in keep : \A k2 \in keep : k2 <= k
         IN  SubSeq(front, 1, k) \o <<x>> \o SubSeq(front, k + 1, Len(front))

(* mutant of first_solution: the last (lowest-confidence) solution *)
last_solution(solutions) == solutions[Len(solutions)]

(* solutions.into_iter().next() on a non-empty list *)
first_solution(solutions) == solutions[1]

(* query and prove_body.  A result is (Substitution, f32); the model adds the
   position of the clause it came from.  `active` holds the goals whose query
   is still in progress around this one; a query that does not return has
   diverged = TRUE. *)
RECURSIVE query_in(_, _, _)
RECURSIVE query_clauses(_, _, _, _, _)
RECURSIVE prove_body_from(_, _, _, _, _, _)

query_in(cls, goal, active) ==
    IF goal \in active
    THEN [diverged |-> TRUE, results |-> <<>>]
    ELSE LET found == query_clauses(cls, goal, 1, <<>>, active \cup {goal})
         IN  IF found.diverged
             THEN found
             ELSE [diverged |-> FALSE, results |-> sort_by_confidence(found.results)]

(* the loop over self.clauses, from clause i on *)
query_clauses(cls, goal, i, results, active) ==
    IF i > Len(cls)
    THEN [diverged |-> FALSE, results |-> results]
    ELSE LET clause == cls[i]
             u == unify(goal, clause.head, EmptySubst)
         IN  IF u = Diverges
             THEN [diverged |-> TRUE, results |-> <<>>]
             ELSE IF u = None
             THEN query_clauses(cls, goal, i + 1, results, active)
             ELSE IF clause.body = <<>>
             THEN query_clauses(cls, goal, i + 1,
                    Append(results, [subst |-> u.val, confidence |-> clause.confidence,
                                     clause |-> i]),
                    active)
             ELSE LET proof == prove_body_from(cls, clause.body, 1, u.val, <<1, 1>>, active)
                  IN  IF proof = Diverges
                      THEN [diverged |-> TRUE, results |-> <<>>]
                      ELSE IF proof = None
                      THEN query_clauses(cls, goal, i + 1, results, active)
                      ELSE query_clauses(cls, goal, i + 1,
                             Append(results,
                                    [subst |-> proof.val.subst,
                                     confidence |-> F32Mul(clause.confidence,
                                                           proof.val.confidence),
                                     clause |-> i]),
                             active)

(* prove_body, from body goal k on *)
prove_body_from(cls, body, k, current_subst, total_confidence, active) ==
    IF k > Len(body)
    THEN Some([subst |-> current_subst, confidence |-> total_confidence])
    ELSE LET resolved_goal == walk(body[k], current_subst)
         IN  IF resolved_goal = Diverged
             THEN Diverges
             ELSE LET solutions == query_in(cls, resolved_goal, active)
                  IN  IF solutions.diverged
                      THEN Diverges
                      ELSE IF solutions.results # <<>>
                      THEN LET s == first_solution(solutions.results)
                           IN  prove_body_from(cls, body, k + 1,
                                    extend(current_subst, s.subst),
                                    F32Mul(total_confidence, s.confidence), active)
                      ELSE None

prove_body(cls, body, subst) == prove_body_from(cls, body, 1, subst, <<1, 1>>, {})

query(cls, goal) == query_in(cls, goal, {})

(* the clauses given to add_fact and add_rule, and the goals queried *)
MaxClauses == 3     \* clauses in the store

P(t) == Compound("p", <<t>>)
Q(t) == Compound("q", <<t>>)

FactPool ==
    { Clause(Compound("solves", <<Atom("nvidia_driver"), Atom("modprobe nvidia")>>), <<>>, <<9, 10>>),
      Clause(Compound("solves", <<Atom("nvidia_driver"), Atom("akmods --force")>>), <<>>, <<19, 20>>),
      Clause(P(Atom("a")), <<>>, <<1, 2>>),
      Clause(P(Atom("b")), <<>>, <<3, 4>>),
      Clause(P(Atom("c")), <<>>, <<1, 2>>),
      Clause(Q(Atom("a")), <<>>, <<1, 2>>) }

RulePool ==
    { Clause(Compound("r", <<Var("X")>>), <<P(Var("X")), Q(Var("X"))>>, <<1, 2>>),
      Clause(Compound("s", <<Atom("a")>>), <<Q(Atom("a")), Q(Atom("b"))>>, <<3, 4>>),
      Clause(Compound("t", <<Var("X")>>), <<Var("X")>>, <<1, 1>>),
      Clause(Compound("u", <<Atom("a")>>), <<Compound("u", <<Var("X")>>)>>, <<1, 2>>) }

Goals ==
    { Compound("solves", <<Atom("nvidia_driver"), Var("Solution")>>),
      P(Var("X")), P(Atom("a")),
      Compound("r", <<Var("Y")>>),
      Compound("s", <<Atom("a")>>),
      Compound("t", <<Q(Atom("a"))>>),
      Compound("t", <<P(Var("Z"))>>),
      Compound("u", <<Atom("a")>>) }

AddFact(head, confidence) ==
    /\ Len(clauses) < MaxClauses
    /\ clauses' = add_fact(clauses, head, confidence)
    /\ arg' = None
    /\ ret' = None
    /\ UNCHANGED <<engineVars, lifecycleVars, daemonVars>>

AddRule(head, body, confidence) ==
    /\ Len(clauses) < MaxClauses
    /\ clauses' = add_clause(clauses, head, body, confidence)
    /\ arg' = None
    /\ ret' = None
    /\ UNCHANGED <<engineVars, lifecycleVars, daemonVars>>

Query(goal) ==
    /\ arg' = Some(goal)
    /\ ret' = Some(query(clauses, goal))
    /\ UNCHANGED clauses
    /\ UNCHANGED <<engineVars, lifecycleVars, daemonVars>>

InitQuery ==
    /\ IdleEngine
    /\ now = 0
    /\ IdleLifecycle
    /\ IdleReasoning /\ IdleDaemon
    /\ IdlePure

NextQuery ==
    \/ \E c \in FactPool : AddFact(c.head, c.confidence)
    \/ \E c \in RulePool : AddRule(c.head, c.body, c.confidence)
    \/ \E goal \in Goals : Query(goal)

SpecQuery == InitQuery /\ [][NextQuery]_vars

----------------------------------------------------------------------------
(* Claims about query, checked under SpecQuery *)

Queried == ret # None

OnlyFacts == \A i \in 1..Len(clauses) : clauses[i].body = <<>>

(* C15: on a store of facts, query(goal) returns exactly one result per fact
   whose head unifies with the goal and none for the others, in non-increasing
   confidence, results of equal confidence in store order; two matching facts
   with confidences 0.9 and 0.95 give two results, the 0.95 one first. *)
C15_QueryFacts ==
    (Queried /\ OnlyFacts) =>
        LET goal == arg.val
            rs == ret.val.results
            matching == { i \in 1..Len(clauses) :
                            unify(goal, clauses[i].head, EmptySubst).tag = "Some" }
        IN  /\ ~ret.val.diverged
            /\ { rs[k].clause : k \in 1..Len(rs) } = matching
            /\ Len(rs) = Cardinality(matching)
            /\ \A k \in 1..Len(rs) :
                /\ rs[k].confidence = clauses[rs[k].clause].confidence
                /\ Some(rs[k].subst) = unify(goal, clauses[rs[k].clause].head, EmptySubst)
            /\ \A j, k \in 1..Len(rs) :
                j < k =>
                    /\ ~RatLt(rs[j].confidence, rs[k].confidence)
                    /\ rs[j].confidence = rs[k].confidence => rs[j].clause < rs[k].clause
            /\ (/\ Len(clauses) = 2
                /\ goal = Compound("solves", <<Atom("nvidia_driver"), Var("Solution")>>)
                /\ clauses[1].head.name = "solves" /\ clauses[1].confidence = <<9, 10>>
                /\ clauses[2].head.name = "solves" /\ clauses[2].confidence = <<19, 20>>) =>
                    /\ Len(rs) = 2
                    /\ rs[1].confidence = <<19, 20>>
                    /\ rs[2].confidence = <<9, 10>>

(* three facts p(a) 0.5, p(c) 0.5, p(b) 0.75 queried with p(X): the 0.75
   result first, then the two 0.5 results in store order *)
C15_Witness ==
    /\ Queried
    /\ OnlyFacts
    /\ arg.val = P(Var("X"))
    /\ Len(clauses) = 3
    /\ clauses[1].head = P(Atom("a"))
    /\ clauses[2].head = P(Atom("c"))
    /\ clauses[3].head = P(Atom("b"))
    /\ Len(ret.val.results) = 3
    /\ ret.val.results[1].clause = 3
    /\ ret.val.results[2].clause = 1
    /\ ret.val.results[3].clause = 2

(* the two nvidia_driver facts queried with solves(nvidia_driver, Solution) *)
C15_WitnessExample ==
    /\ Queried
    /\ Len(clauses) = 2
    /\ clauses[1].confidence = <<9, 10>>
    /\ clauses[2].confidence = <<19, 20>>
    /\ arg.val = Compound("solves", <<Atom("nvidia_driver"), Var("Solution")>>)
    /\ Len(ret.val.results) = 2
    /\ ret.val.results[1].subst = [x \in {"Solution"} |-> Atom("akmods --force")]

(* the solution of highest confidence among `sols` (the earliest of them) *)
Best(sols) ==
    LET top == { k \in 1..Len(sols) :
                    \A j \in 1..Len(sols) : ~RatGt(sols[j].confidence, sols[k].confidence) }
    IN  sols[CHOOSE k \in top : \A j \in top : k <= j]

(* the body goals taken left to right from goal k on, each queried on the
   store: whether each has a solution, and the product of the confidences of
   the solutions used *)
RECURSIVE BodyProof(_, _, _)
BodyProof(body, k, subst) ==
    IF k > Len(body)
    THEN [proved |-> TRUE, confidence |-> <<1, 1>>]
    ELSE LET sols == query(clauses, walk(body[k], subst)).results
         IN  IF sols = <<>>
             THEN [proved |-> FALSE, confidence |-> <<0, 1>>]
             ELSE LET rest == BodyProof(body, k + 1, extend(subst, Best(sols).subst))
                  IN  [proved |-> rest.proved,
                       confidence |-> F32Mul(Best(sols).confidence, rest.confidence)]

(* C16: for a rule clause whose head unifies with the goal, query yields a
   result for that clause if and only if every body goal, taken left to right
   and queried recursively, has at least one solution; the highest-confidence
   solution of each sub-goal is the one used, and the result's confidence is
   the clause confidence times the product of the confidences of the
   solutions used. *)
C16_RuleClauses ==
    (Queried /\ ~ret.val.diverged) =>
        \A i \in 1..Len(clauses) :
            LET clause == clauses[i]
                u == unify(arg.val, clause.head, EmptySubst)
                mine == SelectSeq(ret.val.results, LAMBDA r : r.clause = i)
            IN  (clause.body # <<>> /\ u.tag = "Some") =>
                    LET proof == BodyProof(clause.body, 1, u.val)
                    IN  /\ Len(mine) = (IF proof.proved THEN 1 ELSE 0)
                        /\ proof.proved =>
                                mine[1].confidence = F32Mul(clause.confidence, proof.confidence)

(* r(X) :- p(X), q(X) at 0.5 over p(a) 0.5 and q(a) 0.5: one result of
   confidence 0.125 *)
C16_Witness ==
    /\ Queried
    /\ arg.val = Compound("r", <<Var("Y")>>)
    /\ Len(clauses) = 3
    /\ clauses[1] = Clause(P(Atom("a")), <<>>, <<1, 2>>)
    /\ clauses[2] = Clause(Q(Atom("a")), <<>>, <<1, 2>>)
    /\ clauses[3].head = Compound("r", <<Var("X")>>)
    /\ Len(ret.val.results) = 1
    /\ ret.val.results[1].confidence = <<1, 8>>

(* s(a) :- q(a), q(b): the first body goal has a solution, the second has
   none, and the clause yields no result *)
C16_WitnessFails ==
    /\ Queried
    /\ arg.val = Compound("s", <<Atom("a")>>)
    /\ Len(clauses) = 2
    /\ clauses[1] = Clause(Q(Atom("a")), <<>>, <<1, 2>>)
    /\ clauses[2].head = Compound("s", <<Atom("a")>>)
    /\ ~ret.val.diverged
    /\ ret.val.results = <<>>

(* two solutions of different confidence for a sub-goal *)
C16_WitnessBest ==
    /\ Queried
    /\ arg.val = Compound("t", <<P(Var("Z"))>>)
    /\ Len(clauses) = 3
    /\ clauses[1] = Clause(P(Atom("a")), <<>>, <<1, 2>>)
    /\ clauses[2] = Clause(P(Atom("b")), <<>>, <<3, 4>>)
    /\ clauses[3].head = Compound("t", <<Var("X")>>)
    /\ Len(ret.val.results) = 1
    /\ ret.val.results[1].confidence = <<3, 4>>

----------------------------------------------------------------------------
(* The lifecycle manager: within_tolerance *)

abs_diff(a, b) == IF a >= b THEN a - b ELSE b - a

count_condition_differences(a, b) ==
    IF Len(a) # Len(b) THEN abs_diff(Len(a), Len(b)) ELSE 0

count_action_differences(a, b) ==
    IF Len(a) # Len(b) THEN abs_diff(Len(a), Len(b)) ELSE 0

within_tolerance(tol, existing, proposed_conditions, proposed_actions) ==
    LET condition_diff == count_condition_differences(existing.when, proposed_conditions)
        action_diff == count_action_differences(existing.then, proposed_actions)
        total_elements == Len(existing.when) + Len(existing.then)
        total_diff == condition_diff + action_diff
    IN  IF total_elements = 0
        THEN total_diff = 0
        ELSE ~RatGt(F32Div(total_diff, total_elements), tol.variance_threshold)

WithinTolerance ==
    /\ arg # None
    /\ ret = None
    /\ ret' = Some(within_tolerance(tolerance, arg.existing, arg.proposed_conditions,
                                    arg.proposed_actions))
    /\ UNCHANGED arg
    /\ UNCHANGED <<engineVars, lifecycleVars, reasoningVars, daemonVars>>

(* existing rules of up to MaxElements conditions and the proposals made for
   them: the same list, one element left out, one added, one replaced *)
MaxElements == 10   \* conditions of the existing rule

ConditionAt(k) ==
    CASE k = 1 -> FileExists("/f1") [] k = 2 -> FileExists("/f2")
      [] k = 3 -> FileExists("/f3") [] k = 4 -> FileExists("/f4")
      [] k = 5 -> FileExists("/f5") [] k = 6 -> FileExists("/f6")
      [] k = 7 -> FileExists("/f7") [] k = 8 -> FileExists("/f8")
      [] k = 9 -> FileExists("/f9") [] k = 10 -> FileExists("/f10")
      [] OTHER -> ProcessRunning(Nginx)

Without(s, k) == SubSeq(s, 1, k - 1) \o SubSeq(s, k + 1, Len(s))
Replaced(s, k, x) == [i \in 1..Len(s) |-> IF i = k THEN x ELSE s[i]]

Proposals(s, x) ==
    {s, Append(s, x)}
    \cup { Without(s, k) : k \in 1..Len(s) }
    \cup { Replaced(s, k, x) : k \in 1..Len(s) }

InitTolerance ==
    /\ IdleEngine
    /\ now = 0
    /\ tolerance = ToleranceDefault
    /\ proposals = [p \in {} |-> None]
    /\ health_cache = [r \in {} |-> None]
    /\ known_cves = [c \in {} |-> None]
    /\ lastOp = None
    /\ IdleReasoning /\ IdleDaemon
    /\ \E n \in 0..MaxElements, then \in {<<>>, <<LogInfo>>} :
        LET when == [k \in 1..n |-> ConditionAt(k)]
        IN  \E pc \in Proposals(when, ShellCheck("true")),
               pa \in Proposals(then, Escalate("ask")) :
                arg = [existing |-> Rule("t1", when, then, TRUE, RuleStatsDefault, <<>>),
                       proposed_conditions |-> pc,
                       proposed_actions |-> pa]
    /\ ret = None

NextTolerance == WithinTolerance

SpecTolerance == InitTolerance /\ [][NextTolerance]_vars

----------------------------------------------------------------------------
(* Claims about within_tolerance, checked under SpecTolerance *)

Occurrences(s, x) == Cardinality({ i \in 1..Len(s) : s[i] = x })

(* the elements of a that b lacks, counted with their multiplicity *)
RECURSIVE LackedFrom(_, _, _)
LackedFrom(values, a, b) ==
    IF values = {} THEN 0
    ELSE LET x == CHOOSE x \in values : TRUE
             more == Occurrences(a, x) - Occurrences(b, x)
         IN  (IF more > 0 THEN more ELSE 0) + LackedFrom(values \ {x}, a, b)

Lacked(a, b) == LackedFrom({ a[i] : i \in 1..Len(a) }, a, b)

(* missing plus extra elements of a proposal relative to the existing list *)
MissingOrExtra(existing, proposed) == Lacked(existing, proposed) + Lacked(proposed, existing)

(* C17: within_tolerance is true iff (missing or extra elements of the
   proposal relative to the existing rule) / (existing elements) <=
   variance_threshold; with the default 0.05 and an existing rule of 10
   elements, a proposal with one element missing, added or replaced is not
   within tolerance and an identical proposal is. *)
C17_WithinTolerance ==
    ret # None =>
        LET ex == arg.existing
            total == Len(ex.when) + Len(ex.then)
            diff == MissingOrExtra(ex.when, arg.proposed_conditions)
                    + MissingOrExtra(ex.then, arg.proposed_actions)
        IN  total > 0 =>
                (ret.val = (diff * tolerance.variance_threshold[2]
                                <= tolerance.variance_threshold[1] * total))

----------------------------------------------------------------------------
(* The lifecycle manager: the CVE registry and check_cve_obsolescence.  A CVE
   id and a problem text are strings, kept here as sequences of pieces so that
   str::contains is the search for a contiguous run. *)

Forum(url, thread_title) == [variant |-> "Forum", url |-> url, thread_title |-> thread_title]
Mesh(peer_id, peer_name) == [variant |-> "Mesh", peer_id |-> peer_id, peer_name |-> peer_name]
Import(source) == [variant |-> "Import", source |-> source]

CveStatus(id, affected_packages) ==
    [id |-> id, affected_packages |-> affected_packages, fixed_in |-> None,
     patched_locally |-> FALSE, related_rule_ids |-> <<>>]

CveFixed(cve_id, fixed_version) ==
    [variant |-> "CveFixed", cve_id |-> cve_id, fixed_version |-> fixed_version]

(* str::contains *)
contains(text, pat) ==
    \E i \in 0..(Len(text) - Len(pat)) : SubSeq(text, i + 1, i + Len(pat)) = pat

(* the CVEs for which the loop of check_cve_obsolescence returns *)
cve_candidates(known, rule) ==
    IF rule.provenance.source.variant = "Forum"
    THEN { cve_id \in DOMAIN known :
            /\ contains(rule.provenance.original_problem, cve_id)
            /\ known[cve_id].fixed_in # None }
    ELSE {}

(* check_cve_obsolescence: the values it can return; the HashMap is iterated
   in an order of its own, so any candidate can be the one returned *)
check_cve_obsolescence(known, rule) ==
    IF cve_candidates(known, rule) = {}
    THEN {None}
    ELSE { Some(CveFixed(cve_id, known[cve_id].fixed_in.val)) :
            cve_id \in cve_candidates(known, rule) }

RegisterCve(cve_id, affected_packages) ==
    /\ known_cves' = [c \in DOMAIN known_cves \cup {cve_id} |->
                        IF c = cve_id THEN CveStatus(cve_id, affected_packages)
                        ELSE known_cves[c]]
    /\ lastOp' = [op |-> "register_cve", id |-> cve_id]
    /\ UNCHANGED <<tolerance, proposals, health_cache>>
    /\ UNCHANGED <<engineVars, reasoningVars, pureVars, daemonVars>>

MarkCveFixed(cve_id, fixed_version, local_patch) ==
    /\ IF cve_id \in DOMAIN known_cves
       THEN LET status == known_cves[cve_id]
                related == { status.related_rule_ids[k] : k \in 1..Len(status.related_rule_ids) }
            IN  /\ known_cves' = [known_cves EXCEPT ![cve_id].fixed_in = fixed_version,
                                                    ![cve_id].patched_locally = local_patch]
                /\ health_cache' =
                        [r \in DOMAIN health_cache \cup related |->
                            IF r \in related
                            THEN PossiblyObsolete(<<"CVE has been fixed", cve_id>>)
                            ELSE health_cache[r]]
       ELSE UNCHANGED <<known_cves, health_cache>>
    /\ lastOp' = [op |-> "mark_cve_fixed", id |-> cve_id]
    /\ UNCHANGED <<tolerance, proposals>>
    /\ UNCHANGED <<engineVars, reasoningVars, pureVars, daemonVars>>

CheckCveObsolescence(rule) ==
    /\ arg' = Some(rule)
    /\ ret' \in { Some(r) : r \in check_cve_obsolescence(known_cves, rule) }
    /\ lastOp' = [op |-> "check_cve_obsolescence", id |-> rule.id]
    /\ UNCHANGED <<tolerance, proposals, health_cache, known_cves>>
    /\ UNCHANGED <<engineVars, reasoningVars, daemonVars>>

(* the CVEs registered and the rules checked *)
Cve1 == <<"CVE-2024-", "1">>
Cve12 == <<"CVE-2024-", "1", "2">>

CveIds == {Cve1, Cve12}

ProblemTexts ==
    { <<"fix ", "CVE-2024-", "1">>,
      <<"mitigate ", "CVE-2024-", "1", "2", " in sshd">>,
      <<"dns ", "fails">> }

Sources ==
    { Crystallized("sol-1", <<5, 6>>), Forum("https://forum/t/1", "sshd"),
      Mesh("peer-1", "laptop"), Manual("admin"), Import("ansible") }

CveRule(source, text) ==
    [Rule("c1", <<>>, <<LogInfo>>, TRUE, RuleStatsDefault, <<>>)
        EXCEPT !.provenance.source = source, !.provenance.original_problem = text]

InitCve ==
    /\ IdleEngine
    /\ now = 0
    /\ tolerance = ToleranceDefault
    /\ proposals = [p \in {} |-> None]
    /\ health_cache = [r \in {} |-> None]
    /\ known_cves = [c \in {} |-> None]
    /\ lastOp = None
    /\ IdleReasoning /\ IdleDaemon
    /\ IdlePure

NextCve ==
    \/ \E cve_id \in CveIds : RegisterCve(cve_id, <<"openssh">>)
    \/ \E cve_id \in CveIds, fixed_version \in {None, Some("9.8")}, local_patch \in BOOLEAN :
            MarkCveFixed(cve_id, fixed_version, local_patch)
    \/ \E source \in Sources, text \in ProblemTexts :
            CheckCveObsolescence(CveRule(source, text))

SpecCve == InitCve /\ [][NextCve]_vars

----------------------------------------------------------------------------
(* Claims about check_cve_obsolescence, checked under SpecCve *)

(* the CVEs the registry holds as marked fixed *)
MarkedFixed ==
    { cve_id \in DOMAIN known_cves :
        known_cves[cve_id].fixed_in # None \/ known_cves[cve_id].patched_locally }

CveChecked == lastOp # None /\ lastOp.op = "check_cve_obsolescence"

(* C18: check_cve_obsolescence(rule) returns CveFixed, whatever the rule's
   provenance source, if and only if the rule's original problem text contains
   the id of a CVE that was registered and later marked fixed; it returns None
   otherwise. *)
C18_CveObsolescence ==
    CveChecked =>
        LET text == arg.val.provenance.original_problem
        IN  /\ (ret.val # None) <=> (\E cve_id \in MarkedFixed : contains(text, cve_id))
            /\ ret.val # None =>
                /\ ret.val.val.variant = "CveFixed"
                /\ ret.val.val.cve_id \in MarkedFixed
                /\ contains(text, ret.val.val.cve_id)

----------------------------------------------------------------------------
(* The rules engine and the lifecycle manager side by side: lookups by id *)

LookupFiles ==
    { RuleFile(Rule("e1", <<>>, <<LogInfo, Shell("fix", FALSE)>>, TRUE, RuleStatsDefault, <<"net">>)),
      RuleFile(Rule("e2", <<>>, <<Escalate("ask"), LogInfo>>, TRUE, RuleStatsDefault, <<>>)) }

InitLookup ==
    /\ EngineNew({LookupFiles}, {QuietWorld})
    /\ tolerance = ToleranceDefault
    /\ proposals = [p \in {} |-> None]
    /\ health_cache = [r \in {} |-> None]
    /\ known_cves = [c \in {} |-> None]
    /\ lastOp = None
    /\ IdleReasoning /\ IdleDaemon
    /\ IdlePure

NextLookup ==
    \/ LoadRules
    \/ \E rule_id \in {"e1", "e2", "missing"} : Execute(rule_id)
    \/ ProposeRule("dns fails", <<FileExists("/f")>>, <<LogInfo>>, ProposalEvidence(now, Success))
    \/ \E id \in {"proposal-u1", "missing"}, outcome \in {Success, Failure("e")} :
            AddEvidence(id, ProposalEvidence(now, outcome))

SpecLookup == InitLookup /\ [][NextLookup]_vars

----------------------------------------------------------------------------
(* Claims about lookups by id, checked under SpecLookup *)

(* an execute call on an id no rule of the store carries *)
ExecuteUnknown ==
    /\ result' # result
    /\ \A i \in 1..Len(rules) : rules[i].id # result'.rule_id

(* an add_evidence call on an id no proposal carries *)
AddEvidenceUnknown ==
    /\ lastOp' # lastOp
    /\ lastOp'.op = "add_evidence"
    /\ lastOp'.id \notin DOMAIN proposals

(* C19: execute on an id that is not in the rule store returns an error, runs
   no action and changes no rule's statistics; add_evidence on an id that is
   not among the proposals returns an error and changes no proposal. *)
C19_UnknownIdChangesNothing ==
    [][ /\ ExecuteUnknown =>
            /\ ~result'.ret.ok
            /\ result'.ran = <<>>
            /\ rules' = rules
            /\ UNCHANGED <<files, index, proposals, health_cache, known_cves>>
        /\ AddEvidenceUnknown =>
            /\ ~lastOp'.ret.ok
            /\ proposals' = proposals
            /\ UNCHANGED <<rules, files, index, health_cache, known_cves>> ]_vars

(* both lookups have failed, in an engine whose rules have been applied and
   a manager that holds a proposal with added evidence *)
C19_Witness ==
    /\ result # None
    /\ result.rule_id = "missing"
    /\ ~result.ret.ok
    /\ \E i \in 1..Len(rules) : rules[i].stats.applied_count > 0
    /\ lastOp # None
    /\ lastOp.op = "add_evidence"
    /\ lastOp.id = "missing"
    /\ ~lastOp.ret.ok
    /\ \E p \in DOMAIN proposals : Len(proposals[p].evidence) > 1

----------------------------------------------------------------------------
(* Claims about escalation, checked under Spec *)

(* the last execute stopped at an Escalate action *)
StoppedAtEscalate ==
    /\ Executed
    /\ result.ran # <<>>
    /\ rules[result.pos].then[result.ran[Len(result.ran)]].type = "Escalate"

(* C20: when execute reaches an Escalate action the caller is given a signal
   of its own, distinct from an action failure, and the escalation is not
   treated as a fault of the run: the ExecutionResult does not have the shape
   of a failed run (success = false with the error set) and the rule's
   failure_count is not raised. *)
C20_EscalationIsNotAFault ==
    StoppedAtEscalate =>
        /\ ~(result.ret.val.success = FALSE /\ result.ret.val.error # None)
        /\ rules[result.pos].stats.failure_count = result.before.failure_count

----------------------------------------------------------------------------
(* Claims about substitutions, checked under SpecQuery *)

(* every binding of `before` is in `after`, with the same term *)
KeepsBindings(before, after) ==
    \A v \in DOMAIN before : v \in DOMAIN after /\ after[v] = before[v]

(* the merges `current_subst.extend(new_subst)` of one prove_body call that
   returns, from body goal k on: the substitution before and after each *)
RECURSIVE MergeSteps(_, _, _)
MergeSteps(body, k, current_subst) ==
    IF k > Len(body) THEN <<>>
    ELSE LET solutions == query(clauses, walk(body[k], current_subst)).results
         IN  IF solutions = <<>> THEN <<>>
             ELSE LET merged == extend(current_subst, first_solution(solutions).subst)
                  IN  << [before |-> current_subst, after |-> merged] >>
                        \o MergeSteps(body, k + 1, merged)

(* the substitution unify returns contains every binding of the one given *)
UnifyKeepsBindings ==
    ("t1" \in DOMAIN arg /\ ret # None /\ ret.val.tag = "Some") =>
        KeepsBindings(arg.subst, ret.val.val)

(* in the prove_body calls of the last query, each merge keeps the bindings
   the accumulating substitution already had *)
ProveBodyKeepsBindings ==
    (arg # None /\ "t1" \notin DOMAIN arg /\ ret # None /\ ~ret.val.diverged) =>
        \A i \in 1..Len(clauses) :
            LET u == unify(arg.val, clauses[i].head, EmptySubst)
            IN  (clauses[i].body # <<>> /\ u.tag = "Some") =>
                    LET steps == MergeSteps(clauses[i].body, 1, u.val)
                    IN  \A n \in 1..Len(steps) :
                            KeepsBindings(steps[n].before, steps[n].after)

(* C25: a substitution only grows: the substitution returned by a successful
   unify(t1, t2, s) contains every binding of s with the same term, and during
   prove_body every variable already bound in the accumulating substitution
   keeps its binding after each sub-goal's solution is merged in. *)
C25_SubstitutionOnlyGrows ==
    /\ UnifyKeepsBindings
    /\ ProveBodyKeepsBindings

(* C30: query(goal) returns for every goal and every finite clause store,
   also when the store holds a rule whose body goal unifies with the head of
   that same rule. *)
C30_QueryTerminates ==
    Queried => ~ret.val.diverged

----------------------------------------------------------------------------
(* The lifecycle manager: the health cache and its readers *)

(* assess_health called on any rule: the value is returned, and cached when
   it is Healthy *)
AssessRule(rule) ==
    /\ LET h == assess_health(tolerance, rule, now)
       IN  /\ arg' = rule
           /\ ret' = Some(h)
           /\ health_cache' =
                IF h = Healthy
                THEN [r \in DOMAIN health_cache \cup {rule.id} |->
                        IF r = rule.id THEN h ELSE health_cache[r]]
                ELSE health_cache
           /\ lastOp' = [op |-> "assess_health", id |-> rule.id]
    /\ UNCHANGED <<tolerance, proposals, known_cves>>
    /\ UNCHANGED <<engineVars, reasoningVars, daemonVars>>

(* pending_proposals().len() *)
pending_proposals(props) ==
    { p \in DOMAIN props : props[p].status = PendingReview }

(* rules_needing_attention: the cache entries that are neither Healthy nor
   Probationary (a Vec in the HashMap's order, kept as a set) *)
rules_needing_attention(cache) ==
    { <<id, cache[id]>> : id \in { r \in DOMAIN cache :
                                    cache[r].variant \notin {"Healthy", "Probationary"} } }

(* generate_report *)
generate_report(cache, props, cves, t) ==
    LET count(variants) == Cardinality({ r \in DOMAIN cache : cache[r].variant \in variants })
    IN  [timestamp |-> to_rfc3339(t),
         total_rules |-> Cardinality(DOMAIN cache),
         healthy |-> count({"Healthy"}),
         degrading |-> count({"Degrading"}),
         needs_review |-> count({"NeedsReview"}),
         possibly_obsolete |-> count({"PossiblyObsolete", "Obsolete"}),
         pending_proposals |-> Cardinality(pending_proposals(props)),
         tracked_cves |-> Cardinality(DOMAIN cves)]

RulesNeedingAttention ==
    /\ lastOp' = [op |-> "rules_needing_attention", id |-> "",
                  ret |-> rules_needing_attention(health_cache)]
    /\ UNCHANGED <<tolerance, proposals, health_cache, known_cves>>
    /\ UNCHANGED <<engineVars, reasoningVars, pureVars, daemonVars>>

GenerateReport ==
    /\ lastOp' = [op |-> "generate_report", id |-> "",
                  ret |-> generate_report(health_cache, proposals, known_cves, now)]
    /\ UNCHANGED <<tolerance, proposals, health_cache, known_cves>>
    /\ UNCHANGED <<engineVars, reasoningVars, pureVars, daemonVars>>

(* the statistics a rule goes through: on probation, healthy, below the
   success rate, failing, stale *)
ReportStats ==
    { StatsInput(3, 3, 0, 0, None),
      StatsInput(20, 18, 2, 0, None),
      StatsInput(20, 15, 5, 0, None),
      StatsInput(20, 10, 10, 0, None),
      StatsInput(20, 20, 0, 0, Some(to_rfc3339(0))) }

ReportIds == {"h1", "h2", "h3"}

InitReport ==
    /\ IdleEngine
    /\ IdleReasoning /\ IdleDaemon
    /\ now = NowHealth
    /\ tolerance = ToleranceDefault
    /\ proposals = [p \in {} |-> None]
    /\ health_cache = [r \in {} |-> None]
    /\ known_cves = [c \in {} |-> None]
    /\ lastOp = None
    /\ IdlePure

NextReport ==
    \/ \E id \in ReportIds, stats \in ReportStats :
            AssessRule(Rule(id, <<>>, <<>>, TRUE, stats, <<>>))
    \/ RulesNeedingAttention
    \/ GenerateReport

SpecReport == InitReport /\ [][NextReport]_vars

----------------------------------------------------------------------------
(* Claims about the health cache, checked under SpecReport *)

(* a rule has been assessed; arg and ret hold the last assessment *)
Assessed == ret # None

(* C26: the health cache is coherent with assessment: immediately after
   assess_health(rule) returns h the cached health for rule.id is h, so
   rules_needing_attention and generate_report reflect the most recent
   assessment: a rule last assessed Degrading, NeedsReview or PossiblyObsolete
   is listed as needing attention with that status, and the report is the one
   of a cache that holds the rule's most recent assessment. *)
C26_HealthCacheCoherent ==
    Assessed =>
        LET h == ret.val
            recent == [r \in DOMAIN health_cache \cup {arg.id} |->
                            IF r = arg.id THEN h ELSE health_cache[r]]
        IN  /\ lastOp.op = "assess_health" =>
                /\ arg.id \in DOMAIN health_cache
                /\ health_cache[arg.id] = h
            /\ (/\ lastOp.op = "rules_needing_attention"
                /\ h.variant \in {"Degrading", "NeedsReview", "PossiblyObsolete"}) =>
                    <<arg.id, h>> \in lastOp.ret
            /\ lastOp.op = "generate_report" =>
                    lastOp.ret = generate_report(recent, proposals, known_cves, now)

(* the rule was assessed Healthy, later assessed otherwise, and the report
   still counts it as healthy *)
StaleHealthy ==
    /\ Assessed
    /\ ret.val.variant \in {"Degrading", "NeedsReview", "PossiblyObsolete"}
    /\ lastOp.op = "generate_report"
    /\ lastOp.ret.healthy = 1
    /\ DOMAIN health_cache = {arg.id}

----------------------------------------------------------------------------
(* The rules engine over its whole life: loading, matching, execution and
   crystallization on one store.  The directory may hold a rule file that was
   copied under another file name, its id unchanged. *)

StoreFiles ==
    { RuleFile(Rule("e1", <<>>, <<LogInfo, Shell("fix", FALSE)>>, TRUE, RuleStatsDefault, <<"net">>)),
      RuleFile(Rule("e2", <<FileExists("/f")>>, <<Escalate("ask")>>, TRUE, RuleStatsDefault, <<>>)),
      File("e1-copy", "toml",
           to_string_pretty(Rule("e1", <<>>, <<Shell("other", FALSE)>>, TRUE,
                                 RuleStatsDefault, <<"net">>)).val),
      File("README", "md", [text |-> "# PSA Rules Store"]) }

StoreSolutions ==
    { Solution("sol-1", "nvidia", <<"gpu">>, 5, 0),
      Solution("sol-2", "wifi", <<"net", "wifi">>, 10, 3) }

InitStore ==
    EngineNew(Directories(StoreFiles), {QuietWorld}) /\ IdleLifecycle /\ IdleReasoning /\ IdleDaemon /\ IdlePure

NextStore ==
    \/ LoadRules
    \/ FindMatching
    \/ \E rule_id \in {"e1", "e2", "rule-u1", "missing"} : Execute(rule_id)
    \/ \E solution \in StoreSolutions, io \in IoOutcomes :
            Crystallize(solution, <<>>, <<LogInfo>>, io)

SpecStore == InitStore /\ [][NextStore]_vars

----------------------------------------------------------------------------
(* Claims about the rule store, checked under SpecStore *)

(* s is the beginning of t *)
IsPrefix(s, t) == Len(s) <= Len(t) /\ SubSeq(t, 1, Len(s)) = s

(* a step of execute *)
ExecuteStep == result' # result

(* C28: across find_matching, execute and crystallize the rule store only
   grows and the audit trail is preserved: no rule is removed, every rule
   keeps its place and its id, its version changes only together with an
   append to its version history, and its decision path and version history
   keep all earlier entries in order; execute changes nothing but the
   statistics of the addressed rule. *)
C28_StoreOnlyGrows ==
    [][ /\ Len(rules') >= Len(rules)
        /\ files \subseteq files'
        /\ \A i \in 1..Len(rules) :
            LET old == rules[i]
                new == rules'[i]
            IN  /\ new.id = old.id
                /\ IsPrefix(old.provenance.decision_path, new.provenance.decision_path)
                /\ IsPrefix(old.provenance.history, new.provenance.history)
                /\ new.version # old.version =>
                        /\ Len(new.provenance.history) = Len(old.provenance.history) + 1
                        /\ new.provenance.history[Len(new.provenance.history)].version
                            = new.version
        /\ ExecuteStep =>
            /\ Len(rules') = Len(rules)
            /\ \A i \in 1..Len(rules) :
                IF i = result'.pos
                THEN rules'[i] = [rules[i] EXCEPT !.stats = rules'[i].stats]
                ELSE rules'[i] = rules[i]
            /\ UNCHANGED <<files, index>> ]_vars

(* a loaded rule that has been executed, next to a crystallized rule that has
   been executed too, after a find_matching *)
C28_Witness ==
    /\ Len(rules) = 2
    /\ rules[1].provenance.source.variant = "Manual"
    /\ rules[1].stats.applied_count = 2
    /\ rules[2].provenance.source.variant = "Crystallized"
    /\ rules[2].stats.applied_count = 1
    /\ Len(rules[2].provenance.history) = 1
    /\ matches # None

(* C29: rule ids are unique in the engine: after loading any rule directory
   and any sequence of crystallize calls no two rules of the in-memory store
   have the same id, so that an execution's statistics are attributed to the
   one rule that carries the id. *)
C29_RuleIdsUnique ==
    \A i, j \in 1..Len(rules) : rules[i].id = rules[j].id => i = j

----------------------------------------------------------------------------
(* The persisted form of a rule: written by crystallize, read by load_rules *)

(* a Rule value written with toml::to_string_pretty and read back with
   toml::from_str *)
RoundTrip ==
    /\ arg # None
    /\ ret = None
    /\ ret' = Some(from_str(to_string_pretty(arg).val))
    /\ UNCHANGED arg
    /\ UNCHANGED <<engineVars, lifecycleVars, reasoningVars, daemonVars>>

(* the Rule values written: every provenance source, conditions nested under
   All and Not, actions with and without their optional fields, statistics
   with and without theirs *)
PersistWhen ==
    { <<>>,
      <<FileExists("/f")>>,
      <<Not(ProcessRunning(Nginx)),
        All(<<PortOpen(22, "tcp"), MetricThreshold("cpu", ">", 90)>>)>> }

PersistThen ==
    { <<LogInfo>>,
      <<WriteFile("/etc/x", "c", None), LoadModule("nvidia", Some("modeset=1"))>>,
      <<WriteFile("/p", "c", Some("0644")), InstallPackage("git"), Escalate("ask")>> }

PersistStats ==
    { RuleStatsDefault,
      LoadedStats,
      [applied_count |-> 2, success_count |-> 1, failure_count |-> 1,
       escalation_count |-> 0, last_applied |-> Some(to_rfc3339(5)),
       average_duration_ms |-> Some(3)] }

(* a rule is drawn enabled when it has never been applied, and with tags when
   it names no solution *)
PersistRule(when, then, source, solution_id, stats) ==
    [Rule("p1", when, then, stats = RuleStatsDefault, stats,
          IF solution_id = None THEN <<"net", "net">> ELSE <<>>)
        EXCEPT !.provenance.source = source, !.provenance.solution_id = solution_id]

PersistFiles ==
    { RuleFile(PersistRule(<<FileExists("/f")>>,
                           <<WriteFile("/etc/x", "c", None)>>,
                           Forum("https://forum/t/1", "sshd"), None, LoadedStats)),
      File("README", "md", [text |-> "# PSA Rules Store"]) }

PersistSolution == Solution("sol-2", "wifi", <<"net", "wifi">>, 10, 3)

InitPersist ==
    /\ EngineNew(Directories(PersistFiles), {QuietWorld})
    /\ IdleLifecycle
    /\ IdleReasoning /\ IdleDaemon
    /\ \E when \in PersistWhen, then \in PersistThen, source \in Sources,
          solution_id \in {None, Some("sol-1")}, stats \in PersistStats :
            arg = PersistRule(when, then, source, solution_id, stats)
    /\ ret = None

NextPersist ==
    \/ LoadRules
    \/ \E io \in {"git", "ok"} :
            Crystallize(PersistSolution, <<FileExists("/f")>>, <<LogInfo>>, io)
    \/ RoundTrip

SpecPersist == InitPersist /\ [][NextPersist]_vars

----------------------------------------------------------------------------
(* Claims about the persisted form, checked under SpecPersist *)

(* the rules a fresh RulesEngine::new would load from the directory as it is
   now, for one order of read_dir *)
Reloaded(o) == load_entries([rules |-> <<>>, index |-> EmptyIndex], o).rules

(* C22: round trip of the persisted form: a Rule written to its persisted
   record and read back is the identical Rule (id, conditions, actions,
   provenance, stats, enabled, tags); in particular reloading the rule
   directory gives the rules that were persisted: every rule of the store is
   reloaded as it is, and a reloaded rule is a rule of the store or the rule a
   crystallize call wrote before it failed at git. *)
C22_PersistedRoundTrip ==
    /\ ret # None => ret.val = Ok(arg)
    /\ \A i \in 1..Len(rules) :
            from_str(to_string_pretty(rules[i]).val) = Ok(rules[i])
    /\ phase = "ready" =>
        \A o \in Orders(files) :
            LET re == Reloaded(o)
            IN  /\ \A i \in 1..Len(rules) : \E k \in 1..Len(re) : re[k] = rules[i]
                /\ \A k \in 1..Len(re) :
                    \/ \E i \in 1..Len(rules) : rules[i] = re[k]
                    \/ re[k] = crystallized_rule(re[k].id, PersistSolution,
                                    <<FileExists("/f")>>, <<LogInfo>>, now)

(* a rule with nested conditions, actions with an absent and a present
   optional field and statistics never applied went through the round trip,
   in an engine that has loaded a rule and crystallized another *)
C22_Witness ==
    /\ ret # None
    /\ ret.val.ok
    /\ Len(arg.when) = 2
    /\ arg.then[1] = WriteFile("/etc/x", "c", None)
    /\ arg.then[2] = LoadModule("nvidia", Some("modeset=1"))
    /\ arg.stats.last_applied = None
    /\ arg.provenance.solution_id = None
    /\ Len(rules) = 2
    /\ rules[1].provenance.source.variant = "Forum"
    /\ rules[2].provenance.source.variant = "Crystallized"
    /\ Cardinality(files) = 3

----------------------------------------------------------------------------
(* The statuses a proposal goes through, checked under SpecLifecycle:
   propose_rule creates it Gathering and add_evidence moves it to
   PendingReview; nothing in the manager sets Approved, Rejected or
   Crystallized. *)
ProposalStatusesReached ==
    \A id \in DOMAIN proposals :
        proposals[id].status.variant \in {"Gathering", "PendingReview"}


----------------------------------------------------------------------------
(* daemon::Daemon: the control loop.

   Daemon::run is one task.  Each arm of its tokio::select! awaits its handler
   inline, so the loop is back at the select only when the handler has
   returned.  `handlers` holds the handlers that have started and not yet
   returned, each at one of its await points:
     command     : resp_tx.send(response).await
     health_tick : notify_issues' `notify-send` child
     rule_tick   : apply_rules, between or inside RulesEngine::execute calls
   `daemon` holds the locals of run() and, as history, the number of timer
   ticks taken (ticks), the value of ticks when Shutdown was processed
   (shutdown) and the rules whose execute was in flight when a Shutdown was
   sent (shutdown_inflight).  uptime_secs is wall-clock time and is left
   out. *)

MaxQueue == 1       \* commands waiting in cmd_rx
MaxEvents == 2      \* events the loop takes

DaemonCommand(cmd, text) == [cmd |-> cmd, text |-> text]

DaemonCommands ==
    { DaemonCommand("Status", ""), DaemonCommand("HealthCheck", ""),
      DaemonCommand("Query", "disk full"), DaemonCommand("ListRules", ""),
      DaemonCommand("GetProvenance", "d1"),
      DaemonCommand("Pause", ""), DaemonCommand("Resume", ""),
      DaemonCommand("Shutdown", "") }

DaemonResponse(kind, val) == [kind |-> kind, val |-> val]

(* the locals run() starts with *)
RunLocals ==
    [pc |-> "select", paused |-> FALSE, last_health_check |-> None,
     issues_detected |-> 0, issues_resolved |-> 0,
     events |-> 0, ticks |-> 0, shutdown |-> None, shutdown_inflight |-> {}]

(* a handler in progress; exec is the rule execute() cloned and is running *)
Handler(event, matching, response) ==
    [event |-> event, matching |-> matching, resolved |-> 0, exec |-> None,
     response |-> response]

RemoveAt(s, k) == SubSeq(s, 1, k - 1) \o SubSeq(s, k + 1, Len(s))

(* the rules whose execute is in flight *)
InFlight(hs) == { hs[k].exec.val.id : k \in { j \in 1..Len(hs) : hs[j].exec # None } }

(* run_health_check: what it reports depends on the machine; `overall` is
   computed from the issues as the code does *)
HealthIssue(severity, category) ==
    [severity |-> severity, category |-> category, message |-> <<category, "high">>,
     suggestion |-> None]

HealthReport(issues, t) ==
    [overall |-> IF \E i \in 1..Len(issues) : issues[i].severity = "Critical"
                 THEN "Critical"
                 ELSE IF \E i \in 1..Len(issues) : issues[i].severity = "Warning"
                 THEN "Warning" ELSE "Good",
     issues |-> issues,
     timestamp |-> to_rfc3339(t)]

HealthReports(t) ==
    { HealthReport(<<>>, t),
      HealthReport(<<HealthIssue("Warning", "disk"), HealthIssue("Critical", "service")>>, t) }

(* notify_issues reaches its `notify-send` child; DaemonConfig::default()
   has notify.desktop = true *)
notify_awaits(report) ==
    /\ report.issues # <<>>
    /\ report.overall \in {"Critical", "Warning"}

(* Daemon::query.  consulted is history: the stores the call asked, in
   order *)
daemon_query(rs, w, problem) ==
    LET matching == find_matching(rs, w)
    IN  IF matching # <<>>
        THEN [answer |-> <<"Matched rule: ", rs[matching[1]].name, rs[matching[1]].then>>,
              confidence |-> <<9, 10>>,
              source |-> "rules",
              applied_rule |-> Some(rs[matching[1]].id),
              consulted |-> <<"rules">>]
        ELSE [answer |-> <<"No matching rule found for: ", problem>>,
              confidence |-> <<1, 2>>,
              source |-> "pending-ai",
              applied_rule |-> None,
              consulted |-> <<"rules">>]

(* the `match cmd` of run(), for every command but Shutdown: the locals
   after it and the response *)
handle_command(cmd, d, rs, w, report) ==
    CASE cmd.cmd = "Status" ->
            [locals |-> d,
             response |-> DaemonResponse("Status",
                [running |-> TRUE, paused |-> d.paused, rules_count |-> Len(rs),
                 last_health_check |-> d.last_health_check,
                 issues_detected |-> d.issues_detected,
                 issues_resolved |-> d.issues_resolved])]
      [] cmd.cmd = "HealthCheck" ->
            [locals |-> [d EXCEPT !.last_health_check = Some(report.timestamp),
                                  !.issues_detected = @ + Len(report.issues)],
             response |-> DaemonResponse("HealthReport", report)]
      [] cmd.cmd = "Query" ->
            [locals |-> d,
             response |-> DaemonResponse("QueryResult", daemon_query(rs, w, cmd.text))]
      [] cmd.cmd = "ListRules" ->
            [locals |-> d,
             response |-> DaemonResponse("Rules",
                [i \in 1..Len(rs) |->
                    [id |-> rs[i].id, name |-> rs[i].name, enabled |-> rs[i].enabled,
                     success_rate |->
                        IF rs[i].stats.applied_count > 0
                        THEN F32Div(rs[i].stats.success_count, rs[i].stats.applied_count)
                        ELSE <<0, 1>>]])]
      [] cmd.cmd = "GetProvenance" ->
            [locals |-> d,
             response |-> DaemonResponse("Provenance",
                IF find_rule(rs, cmd.text) = 0 THEN None
                ELSE Some([json |-> rs[find_rule(rs, cmd.text)].provenance]))]
      [] cmd.cmd = "Pause" ->
            [locals |-> [d EXCEPT !.paused = TRUE], response |-> DaemonResponse("Ok", <<>>)]
      [] cmd.cmd = "Resume" ->
            [locals |-> [d EXCEPT !.paused = FALSE], response |-> DaemonResponse("Ok", <<>>)]

(* mutant of select_polled: the handlers are started and not awaited *)
select_polled_always(hs) == TRUE

(* the loop is at its tokio::select! *)
select_polled(hs) == hs = <<>>

(* mutant of after_shutdown: the loop goes on *)
after_shutdown_continue(d) == d

(* `break` *)
after_shutdown(d) == [d EXCEPT !.pc = "done"]

(* the loop can take an event *)
Polling ==
    /\ phase = "ready"
    /\ daemon # None
    /\ daemon.pc = "select"
    /\ select_polled(handlers)
    /\ daemon.events < MaxEvents

(* a client sends a command *)
SendCommand(cmd) ==
    /\ daemon # None
    /\ Len(cmd_rx) < MaxQueue
    /\ cmd_rx' = Append(cmd_rx, cmd)
    /\ daemon' = [daemon EXCEPT !.shutdown_inflight =
                    IF cmd.cmd = "Shutdown" THEN @ \cup InFlight(handlers) ELSE @]
    /\ UNCHANGED <<resp_tx, handlers>>
    /\ UNCHANGED <<engineVars, lifecycleVars, reasoningVars, pureVars>>

(* Some(cmd) = self.cmd_rx.recv() *)
TakeCommand ==
    /\ Polling
    /\ cmd_rx # <<>>
    /\ cmd_rx' = Tail(cmd_rx)
    /\ LET cmd == Head(cmd_rx)
           taken == [daemon EXCEPT !.events = @ + 1]
       IN  IF cmd.cmd = "Shutdown"
           THEN /\ daemon' = after_shutdown([taken EXCEPT !.shutdown = Some(taken.ticks)])
                /\ handlers' = handlers
           ELSE \E report \in HealthReports(now) :
                    LET out == handle_command(cmd, taken, rules, world, report)
                    IN  /\ daemon' = out.locals
                        /\ handlers' = Append(handlers,
                                          Handler("command", <<>>, Some(out.response)))
    /\ UNCHANGED resp_tx
    /\ UNCHANGED <<engineVars, lifecycleVars, reasoningVars, pureVars>>

(* self.resp_tx.send(response).await returns *)
SendResponse(k) ==
    /\ k \in 1..Len(handlers)
    /\ handlers[k].event = "command"
    /\ resp_tx' = handlers[k].response
    /\ handlers' = RemoveAt(handlers, k)
    /\ UNCHANGED <<cmd_rx, daemon>>
    /\ UNCHANGED <<engineVars, lifecycleVars, reasoningVars, pureVars>>

(* _ = health_timer.tick() *)
TakeHealthTick ==
    /\ Polling
    /\ LET taken == [daemon EXCEPT !.events = @ + 1, !.ticks = @ + 1]
       IN  IF daemon.paused
           THEN /\ daemon' = taken
                /\ handlers' = handlers
           ELSE \E report \in HealthReports(now) :
                    /\ daemon' = [taken EXCEPT
                            !.last_health_check = Some(report.timestamp),
                            !.issues_detected = IF report.overall # "Good"
                                                THEN @ + Len(report.issues) ELSE @]
                    /\ handlers' = IF report.overall # "Good" /\ notify_awaits(report)
                                   THEN Append(handlers, Handler("health_tick", <<>>, None))
                                   ELSE handlers
    /\ UNCHANGED <<cmd_rx, resp_tx>>
    /\ UNCHANGED <<engineVars, lifecycleVars, reasoningVars, pureVars>>

(* notify_issues returns *)
FinishNotify(k) ==
    /\ k \in 1..Len(handlers)
    /\ handlers[k].event = "health_tick"
    /\ handlers' = RemoveAt(handlers, k)
    /\ UNCHANGED <<cmd_rx, resp_tx, daemon>>
    /\ UNCHANGED <<engineVars, lifecycleVars, reasoningVars, pureVars>>

(* _ = rule_timer.tick(): apply_rules up to its `for rule in matching` *)
TakeRuleTick ==
    /\ Polling
    /\ daemon' = [daemon EXCEPT !.events = @ + 1, !.ticks = @ + 1]
    /\ handlers' =
        IF daemon.paused THEN handlers
        ELSE LET matching == find_matching(rules, world)
             IN  Append(handlers,
                    Handler("rule_tick",
                            [j \in 1..Len(matching) |-> rules[matching[j]].id], None))
    /\ UNCHANGED <<cmd_rx, resp_tx>>
    /\ UNCHANGED <<engineVars, lifecycleVars, reasoningVars, pureVars>>

(* apply_rules calls self.rules.execute(&rule.id): the rule is found and
   cloned, its actions start *)
StartExecute(k) ==
    /\ k \in 1..Len(handlers)
    /\ handlers[k].event = "rule_tick"
    /\ handlers[k].exec = None
    /\ handlers[k].matching # <<>>
    /\ LET rule_id == Head(handlers[k].matching)
           i == find_rule(rules, rule_id)
       IN  IF i = 0
           THEN /\ handlers' = [handlers EXCEPT ![k].matching = Tail(@)]
                /\ result' = [rule_id |-> rule_id, pos |-> 0,
                              ret |-> Err(<<"Rule not found: ", rule_id>>),
                              ran |-> <<>>, os |-> <<>>, before |-> None]
                /\ UNCHANGED execCalls
           ELSE /\ handlers' = [handlers EXCEPT ![k].exec = Some(rules[i])]
                /\ execCalls' = [execCalls EXCEPT ![i].calls = @ + 1]
                /\ UNCHANGED result
    /\ UNCHANGED <<files, phase, rules, index, world, matches, lastCryst, now>>
    /\ UNCHANGED <<cmd_rx, resp_tx, daemon>>
    /\ UNCHANGED <<lifecycleVars, reasoningVars, pureVars>>

(* the execute call returns: its actions have run up to the first failure
   and the stats of the rule are updated; apply_rules counts a success *)
FinishExecute(k) ==
    /\ k \in 1..Len(handlers)
    /\ handlers[k].exec # None
    /\ LET rule == handlers[k].exec.val
           i == find_rule(rules, rule.id)
       IN  \E os \in OsAnswers(rule.then) :
            LET run == run_actions(rule.then, os, 1,
                           [result |-> ExecutionResultDefault, ran |-> <<>>])
            IN  /\ rules' = IF i = 0 THEN rules
                            ELSE [rules EXCEPT ![i].stats =
                                    update_stats(@, run.result.success, now)]
                /\ result' = [rule_id |-> rule.id, pos |-> i,
                              ret |-> Ok(run.result), ran |-> run.ran, os |-> os,
                              before |-> rule.stats]
                /\ handlers' = [handlers EXCEPT
                        ![k].exec = None,
                        ![k].matching = Tail(@),
                        ![k].resolved = IF run.result.success THEN @ + 1 ELSE @]
    /\ UNCHANGED <<files, phase, index, world, matches, execCalls, lastCryst, now>>
    /\ UNCHANGED <<cmd_rx, resp_tx, daemon>>
    /\ UNCHANGED <<lifecycleVars, reasoningVars, pureVars>>

(* apply_rules returns: issues_resolved += resolved *)
FinishRuleTick(k) ==
    /\ k \in 1..Len(handlers)
    /\ handlers[k].event = "rule_tick"
    /\ handlers[k].exec = None
    /\ handlers[k].matching = <<>>
    /\ daemon' = [daemon EXCEPT !.issues_resolved = @ + handlers[k].resolved]
    /\ handlers' = RemoveAt(handlers, k)
    /\ UNCHANGED <<cmd_rx, resp_tx>>
    /\ UNCHANGED <<engineVars, lifecycleVars, reasoningVars, pureVars>>

(* the rules directory of the daemon: d2 is the more specific rule *)
DaemonFiles ==
    { RuleFile(Rule("d1", <<FileExists("/f")>>, <<Shell("fix", FALSE), LogInfo>>,
                    TRUE, RuleStatsDefault, <<>>)),
      RuleFile(Rule("d2", <<FileExists("/f"), FileExists("/g")>>,
                    <<RestartService(Nginx)>>, TRUE, RuleStatsDefault, <<>>)) }

DaemonWorlds == { QuietWorld, [QuietWorld EXCEPT !.exists = TRUE] }

(* Daemon::new has the channels and is about to load the rules; run() is
   entered once it has *)
InitDaemon ==
    /\ EngineNew({DaemonFiles}, DaemonWorlds)
    /\ IdleLifecycle
    /\ IdleReasoning
    /\ IdlePure
    /\ cmd_rx = <<>>
    /\ resp_tx = None
    /\ daemon = RunLocals
    /\ handlers = <<>>

NextDaemon ==
    \/ LoadRules
    \/ \E cmd \in DaemonCommands : SendCommand(cmd)
    \/ TakeCommand
    \/ TakeHealthTick
    \/ TakeRuleTick
    \/ \E k \in 1..Len(handlers) : SendResponse(k)
    \/ \E k \in 1..Len(handlers) : FinishNotify(k)
    \/ \E k \in 1..Len(handlers) : StartExecute(k)
    \/ \E k \in 1..Len(handlers) : FinishExecute(k)
    \/ \E k \in 1..Len(handlers) : FinishRuleTick(k)

SpecDaemon == InitDaemon /\ [][NextDaemon]_vars


----------------------------------------------------------------------------
(* Claims about the daemon, checked under SpecDaemon *)

(* the loop takes a Query command *)
QueryStep ==
    /\ Polling
    /\ cmd_rx # <<>>
    /\ Head(cmd_rx).cmd = "Query"
    /\ cmd_rx' = Tail(cmd_rx)

(* the answer the handler of that step is about to send *)
QueryAnswer == handlers'[Len(handlers')].response.val.val

(* a rule matches: the answer names a most specific matching rule, comes from
   the rules alone, and nothing is executed *)
AnsweredFromRules ==
    LET m == find_matching(rules, world)
        i == find_rule(rules, QueryAnswer.applied_rule.val)
    IN  /\ QueryAnswer.source = "rules"
        /\ QueryAnswer.applied_rule # None
        /\ \E j \in 1..Len(m) : m[j] = i
        /\ \A j \in 1..Len(m) : Len(rules[m[j]].when) <= Len(rules[i].when)
        /\ QueryAnswer.consulted = <<"rules">>
        /\ rules' = rules
        /\ execCalls' = execCalls

(* no rule matches: the clause store is asked after the rules and before any
   fallback *)
AnsweredAfterReasoning ==
    /\ Len(QueryAnswer.consulted) >= 2
    /\ QueryAnswer.consulted[1] = "rules"
    /\ QueryAnswer.consulted[2] = "reasoning"

QueryRulesFirst ==
    [][QueryStep /\ find_matching(rules, world) # <<>> => AnsweredFromRules]_vars

(* C21: the daemon answers a Query from the rules when a rule matches (the
   most specific matching rule, source "rules", no action executed); when no
   rule matches it asks the reasoning engine's clause store, and only if
   that yields nothing does it fall back to the external-AI path *)
C21_QueryOrder ==
    [][QueryStep => IF find_matching(rules, world) # <<>>
                    THEN AnsweredFromRules
                    ELSE AnsweredAfterReasoning]_vars

(* execute calls started and not yet recorded in the stats of rule i *)
Unrecorded(i) ==
    execCalls[i].first.applied_count + execCalls[i].calls
        - rules[i].stats.applied_count

(* C23: the daemon loop is a single logical actor: at most one handler
   (command, health tick, rule tick) is in progress, so no two rule
   executions and no execution and command overlap on the rule store, and
   when the loop takes the next event every execute that was started has
   updated the statistics of its rule *)
C23_SingleActor ==
    /\ Len(handlers) <= 1
    /\ Cardinality({ k \in 1..Len(handlers) : handlers[k].exec # None }) <= 1
    /\ \A i \in 1..Len(rules) :
        Unrecorded(i) = Cardinality({ k \in 1..Len(handlers) :
                            /\ handlers[k].exec # None
                            /\ find_rule(rules, handlers[k].exec.val.id) = i })
    /\ handlers = <<>> => \A i \in 1..Len(rules) : Unrecorded(i) = 0

(* a second event is being handled after a rule execution has completed *)
C23_Witness ==
    /\ daemon # None
    /\ daemon.events >= 2
    /\ handlers # <<>>
    /\ \E i \in 1..Len(rules) :
        execCalls[i].calls >= 1 /\ rules[i].stats.applied_count >= 1

(* C24: once Shutdown is processed no health-timer or rule-timer tick is
   handled, and when the loop has exited no handler is in progress: every
   rule action sequence that was started, one in flight when Shutdown was
   sent included, has run to its end and is recorded in the statistics of
   its rule *)
C24_ShutdownDrains ==
    daemon # None =>
        /\ daemon.shutdown # None => daemon.ticks = daemon.shutdown.val
        /\ daemon.pc = "done" =>
            /\ daemon.shutdown # None
            /\ handlers = <<>>
            /\ \A i \in 1..Len(rules) : Unrecorded(i) = 0

(* Shutdown was sent while a rule was executing; the loop has exited with
   that execution recorded, as a success or as a failure *)
C24_Witness ==
    /\ daemon # None
    /\ daemon.pc = "done"
    /\ \E i \in 1..Len(rules) :
        /\ rules[i].id \in daemon.shutdown_inflight
        /\ rules[i].stats.applied_count >= 1
        /\ rules[i].stats.applied_count
            = rules[i].stats.success_count + rules[i].stats.failure_count

====
